---- MODULE Spec2Model ----
(***************************************************************************)
(* The pipeline execution engine of src/src/execution_engine.py, with the  *)
(* part of src/src/function_library.py it calls.                           *)
(*                                                                         *)
(* Python values are tagged pairs <<tag, payload>>.  A Python str is a     *)
(* sequence of tokens: the tokens "$", "{{", "}}", ".", " ", "output_",    *)
(* the decimal digits and a few words stand for the substrings the engine  *)
(* tests for (startswith, endswith, split, the regular expression, int).   *)
(* A Python dict is the sequence of its <<key, value>> items in insertion  *)
(* order, so that iteration order and "first maximal element" are those of *)
(* the interpreter.                                                        *)
(***************************************************************************)
EXTENDS Integers, Sequences, FiniteSets, TLC

VARIABLES
    stores,             \* heap of dict objects: object id -> items
    histories,          \* heap of list objects: object id -> execution records
    output_storage,     \* ExecutionEngine.output_storage: id of a dict object
    execution_history,  \* ExecutionEngine.execution_history: id of a list object
    function_calls,     \* per invocation: the steps enumerate() has yielded so far
    pc,                 \* per invocation: "idle", "running" or "done"
    result,             \* per invocation: what execute_pipeline returned
    invoked,            \* per invocation: step indices whose callable was called
    outcomes,           \* per invocation: how each yielded step ended
    store_by,           \* per dict object: which invocation wrote each key
    hist_by,            \* per list object: which invocation appended each record
    foreign_read,       \* per invocation: a reference read another invocation's output
    raw_probe,          \* resolver scenario: the raw inputs handed to _resolve_inputs
    probe_out,          \* resolver scenario: what _resolve_inputs returned
    precheck,           \* the step list handed to validate_function_calls and
                        \* dry_run, and what each of them returned
    query               \* a request to MCPServer: the entry point, the planner's
                        \* step list, how far the handler got, its response

vars == <<stores, histories, output_storage, execution_history, function_calls,
          pc, result, invoked, outcomes, store_by, hist_by, foreign_read,
          raw_probe, probe_out,
                   precheck, query>>

(***************************************************************************)
(* Bounds of the model.                                                    *)
(***************************************************************************)
MaxSteps == 3

Threads == {1, 2}

(***************************************************************************)
(* Python values.                                                          *)
(***************************************************************************)
PyNone == <<"none", "None">>

PyInt(n) == <<"int", n>>

PyStr(s) == <<"str", s>>

PyList(xs) == <<"list", xs>>

PyBool(b) == <<"bool", b>>

PyTuple(xs) == <<"tuple", xs>>

PyDict(items) == <<"dict", items>>

IsStr(v) == v[1] = "str"

IsDict(v) == v[1] = "dict"

\* bool(v): None, 0, "", [] and {} are false
Truthy(v) ==
    CASE v[1] = "none" -> FALSE
      [] v[1] = "int" -> v[2] # 0
      [] OTHER -> Len(v[2]) > 0

\* hash(v) succeeds: lists and dicts are unhashable
Hashable(v) == v[1] \notin {"list", "dict"}

(***************************************************************************)
(* dict operations on item sequences.                                      *)
(***************************************************************************)
Range(s) == {s[n] : n \in DOMAIN s}

Keys(d) == {d[n][1] : n \in DOMAIN d}

HasKey(d, k) == \E n \in DOMAIN d : d[n][1] = k

Lookup(d, k) == d[CHOOSE n \in DOMAIN d : d[n][1] = k][2]

\* d.get(k, default)
GetOr(d, k, default) == IF HasKey(d, k) THEN Lookup(d, k) ELSE default

\* d[k] = v: an existing key keeps its position, a new key goes last
Put(d, k, v) ==
    IF HasKey(d, k)
    THEN [d EXCEPT ![CHOOSE n \in DOMAIN d : d[n][1] = k] = <<k, v>>]
    ELSE Append(d, <<k, v>>)

(***************************************************************************)
(* str operations on token sequences.                                      *)
(***************************************************************************)
DigitSeq == <<"0", "1", "2", "3", "4", "5", "6", "7", "8", "9">>

Digits == {DigitSeq[n] : n \in DOMAIN DigitSeq}

DigitVal(d) == (CHOOSE n \in DOMAIN DigitSeq : DigitSeq[n] = d) - 1

\* s.startswith(tok) / s.endswith(tok) for a one-token affix
StartsWith(s, tok) == Len(s) >= 1 /\ s[1] = tok

EndsWith(s, tok) == Len(s) >= 1 /\ s[Len(s)] = tok

\* number of leading tokens of s that lie in S
RECURSIVE LeadLen(_, _)
LeadLen(s, S) ==
    IF s # <<>> /\ s[1] \in S THEN 1 + LeadLen(Tail(s), S) ELSE 0

Drop(s, n) == SubSeq(s, n + 1, Len(s))

Reverse(s) == [n \in 1..Len(s) |-> s[Len(s) + 1 - n]]

\* s.strip()
Strip(s) ==
    LET l == Drop(s, LeadLen(s, {" "}))
    IN  SubSeq(l, 1, Len(l) - LeadLen(Reverse(l), {" "}))

\* s.split(sep): the pieces between the occurrences of the token sep
RECURSIVE Split(_, _)
Split(s, sep) ==
    LET n == LeadLen(s, {s[m] : m \in DOMAIN s} \ {sep})
    IN  IF n = Len(s) THEN <<s>>
        ELSE <<SubSeq(s, 1, n)>> \o Split(Drop(s, n + 1), sep)

\* the value of a run of decimal digits
RECURSIVE DigitsToInt(_)
DigitsToInt(ds) ==
    IF ds = <<>> THEN 0
    ELSE 10 * DigitsToInt(SubSeq(ds, 1, Len(ds) - 1)) + DigitVal(ds[Len(ds)])

\* str(n) for n >= 0
RECURSIVE IntToStr(_)
IntToStr(n) ==
    IF n < 10 THEN <<DigitSeq[n + 1]>>
    ELSE IntToStr(n \div 10) \o <<DigitSeq[(n % 10) + 1]>>

\* int(s) is defined: optional surrounding whitespace around decimal digits
IntParses(s) ==
    LET t == Strip(s) IN t # <<>> /\ \A n \in DOMAIN t : t[n] \in Digits

IntOf(s) == DigitsToInt(Strip(s))

(***************************************************************************)
(* Outcomes of a call: a returned value, or a raised exception with its    *)
(* message str(e).                                                         *)
(***************************************************************************)
Return(v) == [ok |-> TRUE, val |-> v]

Raise(msg) == [ok |-> FALSE, val |-> PyStr(msg)]

(***************************************************************************)
(* Reference resolution (ExecutionEngine._resolve_variable,                *)
(* _resolve_template_variable, _resolve_inputs).  storage is the dict      *)
(* self.output_storage refers to, history the list self.execution_history  *)
(* refers to.                                                              *)
(***************************************************************************)

\* Navigate without the test "if data is None" after data.get(field)
RECURSIVE NavigateNullOk(_, _)
NavigateNullOk(data, fields) ==
    IF fields = <<>> THEN Return(data)
    ELSE IF ~IsDict(data)
    THEN Raise(<<"Cannot access field '">> \o fields[1] \o <<"' on non-dict data">>)
    ELSE NavigateNullOk(GetOr(data[2], PyStr(fields[1]), PyNone), Tail(fields))

\* Navigate with the loop left after its first field
NavigateFirstOnly(data, fields) ==
    IF fields = <<>> THEN Return(data)
    ELSE IF ~IsDict(data)
    THEN Raise(<<"Cannot access field '">> \o fields[1] \o <<"' on non-dict data">>)
    ELSE IF GetOr(data[2], PyStr(fields[1]), PyNone) = PyNone
    THEN Raise(<<"Field '">> \o fields[1] \o <<"' not found">>)
    ELSE Return(GetOr(data[2], PyStr(fields[1]), PyNone))

\* the loop "for field in ...:" shared by both resolvers
RECURSIVE Navigate(_, _)
Navigate(data, fields) ==
    IF fields = <<>> THEN Return(data)
    ELSE LET field == fields[1] IN
         IF ~IsDict(data)
         THEN Raise(<<"Cannot access field '">> \o field \o <<"' on non-dict data">>)
         ELSE LET next == GetOr(data[2], PyStr(field), PyNone) IN
              IF next = PyNone
              THEN Raise(<<"Field '">> \o field \o <<"' not found">>)
              ELSE Navigate(next, Tail(fields))

\* re.match(r'\$output_(\d+)(?:\.(.+))?', variable): a match of a prefix
VarMatches(variable) ==
    /\ Len(variable) >= 3
    /\ variable[1] = "$"
    /\ variable[2] = "output_"
    /\ variable[3] \in Digits

\* match.group(1)
VarIndexDigits(variable) ==
    SubSeq(variable, 3, 2 + LeadLen(Drop(variable, 2), Digits))

\* match.group(2): the text after the first "." that follows the digits, or
\* <<>> for None (the group matches at least one character)
VarFieldPath(variable) ==
    LET rest == Drop(variable, 2 + Len(VarIndexDigits(variable)))
    IN  IF Len(rest) >= 2 /\ rest[1] = "." THEN Tail(rest) ELSE <<>>

OutputKey(n) == PyStr(<<"output_">> \o IntToStr(n))

ResolveVariableBody(variable, storage) ==
    IF ~VarMatches(variable)
    THEN Raise(<<"Invalid variable reference: ">> \o variable)
    ELSE LET output_index == DigitsToInt(VarIndexDigits(variable))
             field_path == VarFieldPath(variable)
             output_key == OutputKey(output_index)
         IN  IF ~HasKey(storage, output_key)
             THEN Raise(<<"Output ">> \o output_key[2] \o <<" not found">>)
             ELSE IF field_path # <<>>
                  THEN Navigate(Lookup(storage, output_key), Split(field_path, "."))
                  ELSE Return(Lookup(storage, output_key))

\* _resolve_variable: the body, with every exception re-raised as ValueError
ResolveVariable(variable, storage) ==
    LET r == ResolveVariableBody(variable, storage)
    IN  IF r.ok THEN r
        ELSE Raise(<<"Error resolving variable ">> \o variable \o <<": ">> \o r.val[2])

\* the hardcoded var_mapping of _resolve_template_variable
VarMapping ==
    << <<PyStr(<<"december_invoices">>), PyStr(<<"output_", "0">>)>>,
       <<PyStr(<<"invoice_summary">>), PyStr(<<"output_", "1">>)>>,
       <<PyStr(<<"high_value_invoices">>), PyStr(<<"output_", "1">>)>> >>

\* HistoryLookup with the loop over self.execution_history left out
HistoryLookupSkipped(history, var_name) == PyNone

\* the loop over self.execution_history: the outputs of the first successful
\* record whose output_var is var_name, or None
HistoryLookup(history, var_name) ==
    LET hits == {n \in DOMAIN history :
                    history[n].success /\ history[n].output_var = PyStr(var_name)}
    IN  IF hits = {} THEN PyNone
        ELSE history[CHOOSE n \in hits : \A m \in hits : n <= m].outputs

\* the value bound to data before the check "if data is None"
TemplateData(var_name, storage, history) ==
    IF HasKey(storage, PyStr(var_name))
    THEN Lookup(storage, PyStr(var_name))
    ELSE LET data == HistoryLookup(history, var_name) IN
         IF data # PyNone THEN data
         ELSE IF HasKey(VarMapping, PyStr(var_name))
                 /\ HasKey(storage, Lookup(VarMapping, PyStr(var_name)))
              THEN Lookup(storage, Lookup(VarMapping, PyStr(var_name)))
              ELSE PyNone

ResolveTemplateBody(variable, storage, history) ==
    LET var_content == Strip(SubSeq(variable, 2, Len(variable) - 1))
        parts == Split(var_content, ".")
        var_name == parts[1]
        field_path == Tail(parts)
        data == TemplateData(var_name, storage, history)
    IN  IF data = PyNone
        THEN Raise(<<"Variable '">> \o var_name \o <<"' not found in output storage">>)
        ELSE Navigate(data, field_path)

\* _resolve_template_variable
ResolveTemplateVariable(variable, storage, history) ==
    LET r == ResolveTemplateBody(variable, storage, history)
    IN  IF r.ok THEN r
        ELSE Raise(<<"Error resolving template variable ">> \o variable
                   \o <<": ">> \o r.val[2])

\* IsTemplateRef without the test value.endswith("}}")
IsTemplateRefLoose(value) == IsStr(value) /\ StartsWith(value[2], "{{")

\* the branch of _resolve_inputs taken for one value
IsTemplateRef(value) ==
    IsStr(value) /\ StartsWith(value[2], "{{") /\ EndsWith(value[2], "}}")

IsVariableRef(value) ==
    IsStr(value) /\ ~IsTemplateRef(value) /\ StartsWith(value[2], "$")

\* ResolveValue that also resolves a positional reference found inside a
\* one-element list
ResolveValueDeep(value, storage, history) ==
    IF IsTemplateRef(value) THEN ResolveTemplateVariable(value[2], storage, history)
    ELSE IF IsVariableRef(value) THEN ResolveVariable(value[2], storage)
    ELSE IF value[1] = "list" /\ Len(value[2]) = 1 /\ IsVariableRef(value[2][1])
    THEN IF ResolveVariable(value[2][1][2], storage).ok
         THEN Return(PyList(<<ResolveVariable(value[2][1][2], storage).val>>))
         ELSE ResolveVariable(value[2][1][2], storage)
    ELSE Return(value)

ResolveValue(value, storage, history) ==
    IF IsTemplateRef(value) THEN ResolveTemplateVariable(value[2], storage, history)
    ELSE IF IsVariableRef(value) THEN ResolveVariable(value[2], storage)
    ELSE Return(value)

\* the loop of _resolve_inputs over raw_inputs.items(), resolved so far in acc
RECURSIVE ResolveItems(_, _, _, _)
ResolveItems(items, acc, storage, history) ==
    IF items = <<>> THEN Return(PyDict(acc))
    ELSE LET r == ResolveValue(items[1][2], storage, history) IN
         IF ~r.ok THEN r
         ELSE ResolveItems(Tail(items), Put(acc, items[1][1], r.val), storage, history)

\* _resolve_inputs: raw_inputs.items() raises unless raw_inputs is a dict
ResolveInputs(raw_inputs, storage, history) ==
    IF ~IsDict(raw_inputs)
    THEN Raise(<<"'", raw_inputs[1], "' object has no attribute 'items'">>)
    ELSE ResolveItems(raw_inputs[2], <<>>, storage, history)

(***************************************************************************)
(* The registry (FunctionLibrary.functions) and execute_function.  Two     *)
(* registered operations are modelled, absolute_value (one required input) *)
(* and generate_uuid (no input); every other name is unregistered.         *)
(***************************************************************************)
Functions ==
    << <<PyStr(<<"absolute_value">>),
         [description |-> <<"Get absolute value of a number">>,
          inputs |-> << <<PyStr(<<"number">>), PyStr(<<"float">>)>> >>,
          outputs |-> << <<PyStr(<<"result">>), PyStr(<<"float">>)>> >>]>>,
       <<PyStr(<<"generate_uuid">>),
         [description |-> <<"Generate a UUID string">>,
          inputs |-> <<>>,
          outputs |-> << <<PyStr(<<"uuid">>), PyStr(<<"str">>)>> >>]>> >>

Abs(n) == IF n < 0 THEN 0 - n ELSE n

\* FunctionLibrary.absolute_value called as func(**inputs)
AbsoluteValue(inputs) ==
    LET unexpected == {n \in DOMAIN inputs : inputs[n][1] # PyStr(<<"number">>)} IN
    IF unexpected # {}
    THEN Raise(<<"FunctionLibrary.absolute_value() got an unexpected keyword argument '">>
               \o inputs[CHOOSE n \in unexpected : \A m \in unexpected : n <= m][1][2]
               \o <<"'">>)
    ELSE IF inputs = <<>>
    THEN Raise(<<"FunctionLibrary.absolute_value() missing 1 required positional argument: '",
                 "number", "'">>)
    ELSE LET number == Lookup(inputs, PyStr(<<"number">>)) IN
         IF number[1] # "int"
         THEN Raise(<<"bad operand type for abs(): '", number[1], "'">>)
         ELSE Return(PyDict(<< <<PyStr(<<"result">>), PyInt(Abs(number[2]))>> >>))

\* FunctionLibrary.generate_uuid called as func(**inputs); the token "uuid4"
\* stands for the text of the random UUID
GenerateUuid(inputs) ==
    IF inputs # <<>>
    THEN Raise(<<"FunctionLibrary.generate_uuid() got an unexpected keyword argument '">>
               \o inputs[1][1][2] \o <<"'">>)
    ELSE Return(PyDict(<< <<PyStr(<<"uuid">>), PyStr(<<"uuid4">>)>> >>))

\* "name not in self.functions" is false: the callable is looked up and called
Registered(name) == Hashable(name) /\ HasKey(Functions, name)

\* execute_function without the test "name not in self.functions": an
\* unknown name is served by the first registered callable
ExecuteFunctionUnchecked(name, inputs) ==
    IF name = PyStr(<<"generate_uuid">>) THEN GenerateUuid(inputs[2])
    ELSE AbsoluteValue(inputs[2])

\* FunctionLibrary.execute_function
ExecuteFunction(name, inputs) ==
    IF ~Hashable(name) THEN Raise(<<"unhashable type: '", name[1], "'">>)
    ELSE IF ~HasKey(Functions, name)
    THEN Raise(<<"Function '">> \o (IF IsStr(name) THEN name[2] ELSE <<name[1]>>)
               \o <<"' not found">>)
    ELSE IF name = PyStr(<<"absolute_value">>) THEN AbsoluteValue(inputs[2])
    ELSE GenerateUuid(inputs[2])

(***************************************************************************)
(* ExecutionEngine._execute_step on the objects the engine's fields refer  *)
(* to.  The outcome carries the objects' new contents, the step result     *)
(* (success, error), whether an exception left the method (raised), and    *)
(* whether the registry's callable was called.                             *)
(***************************************************************************)
\* StepLog recording an empty map in place of the resolved inputs
StepLogNoInputs(step_index, function_name, resolved_inputs, outputs, output_var) ==
    [step |-> step_index, function |-> function_name, inputs |-> PyDict(<<>>),
     outputs |-> outputs, output_var |-> output_var, success |-> TRUE]

StepLog(step_index, function_name, resolved_inputs, outputs, output_var) ==
    [step |-> step_index, function |-> function_name, inputs |-> resolved_inputs,
     outputs |-> outputs, output_var |-> output_var, success |-> TRUE]

ErrorLog(step_index, function_name, raw_inputs, error) ==
    [step |-> step_index, function |-> function_name, inputs |-> raw_inputs,
     error |-> error, success |-> FALSE]

\* the except branch of _execute_step
StepFailed(step_index, function_name, raw_inputs, error, storage, history, called) ==
    [raised |-> FALSE, success |-> FALSE, error |-> error, called |-> called,
     outputs |-> PyNone, storage |-> storage,
     history |-> Append(history, ErrorLog(step_index, function_name, raw_inputs, error))]

\* lines 57-73 of _execute_step, after the operation returned outputs
StepStore(step_index, function_name, raw_inputs, resolved_inputs, outputs, output_var, storage, history) ==
    LET stored == Put(storage, OutputKey(step_index), outputs) IN
    IF Truthy(output_var) /\ ~Hashable(output_var)
    THEN StepFailed(step_index, function_name, raw_inputs,
                    PyStr(<<"unhashable type: '", output_var[1], "'">>),
                    stored, history, TRUE)
    ELSE [raised |-> FALSE, success |-> TRUE, error |-> PyNone, called |-> TRUE,
          outputs |-> outputs,
          storage |-> IF Truthy(output_var) THEN Put(stored, output_var, outputs)
                      ELSE stored,
          history |-> Append(history, StepLog(step_index, function_name,
                                              resolved_inputs, outputs, output_var))]

ExecuteStep(step_index, function_call, storage, history) ==
    IF ~IsDict(function_call)
    THEN [raised |-> TRUE, success |-> FALSE, called |-> FALSE, outputs |-> PyNone,
          error |-> PyStr(<<"'", function_call[1], "' object has no attribute 'get'">>),
          storage |-> storage, history |-> history]
    ELSE LET function_name == GetOr(function_call[2], PyStr(<<"function">>), PyNone)
             raw_inputs == GetOr(function_call[2], PyStr(<<"inputs">>), PyDict(<<>>))
             output_var == GetOr(function_call[2], PyStr(<<"output_var">>), PyNone)
             resolved == ResolveInputs(raw_inputs, storage, history)
             outcome == ExecuteFunction(function_name, resolved.val)
         IN  IF ~resolved.ok
             THEN StepFailed(step_index, function_name, raw_inputs, resolved.val,
                             storage, history, FALSE)
             ELSE IF ~outcome.ok
             THEN StepFailed(step_index, function_name, raw_inputs, outcome.val,
                             storage, history, Registered(function_name))
             ELSE StepStore(step_index, function_name, raw_inputs, resolved.val,
                            outcome.val, output_var, storage, history)

(***************************************************************************)
(* The result builders.  A result refers to the engine's history and store *)
(* objects (it holds their ids), it does not copy them.                    *)
(***************************************************************************)

\* x.split('_')[1] for a key x that starts with 'output_'
UnderscorePiece(k) ==
    LET rest == Tail(k)
        n == LeadLen(rest, {rest[m] : m \in DOMAIN rest} \ {"output_"})
    IN  SubSeq(rest, 1, n) \o (IF n < Len(rest) THEN <<"output">> ELSE <<>>)

\* the positions of numeric_keys in the store's items
NumericKeys(storage) ==
    {n \in DOMAIN storage : StartsWith(storage[n][1][2], "output_")}

\* the numeric keys on which int(x.split('_')[1]) raises ValueError
BadNumericKeys(storage) ==
    {n \in NumericKeys(storage) : ~IntParses(UnderscorePiece(storage[n][1][2]))}

FirstOf(S) == CHOOSE n \in S : \A m \in S : n <= m

\* max(numeric_keys, key=...): the first key of greatest index
LastKey(storage) ==
    LET num == NumericKeys(storage)
        idx(n) == IntOf(UnderscorePiece(storage[n][1][2]))
    IN  storage[CHOOSE n \in num :
                    \A m \in num : idx(m) < idx(n) \/ (idx(m) = idx(n) /\ n <= m)][1]

\* the computation of final_output in _create_success_result
FinalOutput(storage) ==
    IF \E n \in DOMAIN storage : ~IsStr(storage[n][1])
    THEN Raise(<<"object has no attribute 'startswith'">>)
    ELSE IF BadNumericKeys(storage) # {}
    THEN Raise(<<"invalid literal for int() with base 10: '">>
               \o UnderscorePiece(storage[FirstOf(BadNumericKeys(storage))][1][2])
               \o <<"'">>)
    ELSE IF NumericKeys(storage) = {} THEN Return(PyNone)
    ELSE Return(Lookup(storage, LastKey(storage)))

CreateSuccessResult(final_output, history_ref, storage_ref) ==
    [success |-> TRUE, final_output |-> final_output,
     execution_history |-> history_ref, all_outputs |-> storage_ref]

\* _create_error_result that attributes every failure to no step
CreateErrorResultUnattributed(error_message, failed_step, history_ref, storage_ref) ==
    [success |-> FALSE, error |-> error_message, failed_step |-> 0 - 1,
     execution_history |-> history_ref, partial_outputs |-> storage_ref]

CreateErrorResult(error_message, failed_step, history_ref, storage_ref) ==
    [success |-> FALSE, error |-> error_message, failed_step |-> failed_step,
     execution_history |-> history_ref, partial_outputs |-> storage_ref]

\* the except branch of execute_pipeline
\* PipelineFailed with the exception leaving execute_pipeline
PipelineEscapes(e, history_ref, storage_ref) == [escaped |-> e]

PipelineFailed(e, history_ref, storage_ref) ==
    CreateErrorResult(PyStr(<<"Pipeline execution failed: ">> \o e[2]), 0 - 1,
                      history_ref, storage_ref)

(***************************************************************************)
(* The step lists the model runs: every list of at most MaxSteps elements  *)
(* of Steps.  enumerate(function_calls) yields the elements one by one, so *)
(* an invocation's function_calls grows as the loop pulls them.            *)
(***************************************************************************)
FunctionNames == {PyStr(<<"absolute_value">>), PyStr(<<"foo">>)}

RawValues ==
    {PyInt(5), PyInt(-7),
     PyStr(<<"$", "output_", "0">>),
     PyStr(<<"$", "output_", "0", ".", "result">>),
     PyStr(<<"$", "output_", "1", ".", "result">>),
     PyStr(<<"{{", "x", ".", "result", "}}">>)}

Aliases ==
    {PyNone, PyStr(<<"x">>), PyStr(<<"output_", "1">>), PyStr(<<"output_", "9">>),
     PyStr(<<"output_", "x">>)}

\* {"function": f, "inputs": {"number": x}, "output_var": a}, the last item
\* left out for a = None
Call(f, x, a) ==
    PyDict(<< <<PyStr(<<"function">>), f>>,
              <<PyStr(<<"inputs">>), PyDict(<< <<PyStr(<<"number">>), x>> >>)>> >>
           \o (IF a = PyNone THEN <<>> ELSE << <<PyStr(<<"output_var">>), a>> >>))

\* a list element that is not a dict
Malformed == PyStr(<<"notadict">>)

Steps == {Call(f, x, a) : f \in FunctionNames, x \in RawValues, a \in Aliases}
         \cup {Malformed}

NoResult == [pending |-> TRUE]

\* a method that has not been called: no outcome yet
NoOutcome == [ok |-> FALSE, val |-> PyNone]

NoCheck == [function_calls |-> <<>>, validation |-> NoOutcome, dry_run |-> NoOutcome]

\* no request has been made to the server
NoQuery == [entry |-> "none", stage |-> "idle", function_calls |-> <<>>, response |-> NoResult]

(***************************************************************************)
(* ExecutionEngine.__init__ and execute_pipeline.  execute_pipeline is     *)
(* three kinds of step: Start (lines 30-31), one Step per loop iteration   *)
(* (lines 34-37, with the except branch of line 42), Finish (line 39).     *)
(***************************************************************************)
Storage == stores[output_storage]

History == histories[execution_history]

EngineInit ==
    /\ stores = << <<>> >>
    /\ histories = << <<>> >>
    /\ output_storage = 1
    /\ execution_history = 1
    /\ store_by = << <<>> >>
    /\ hist_by = << <<>> >>
    /\ function_calls = [t \in Threads |-> <<>>]
    /\ pc = [t \in Threads |-> "idle"]
    /\ result = [t \in Threads |-> NoResult]
    /\ invoked = [t \in Threads |-> <<>>]
    /\ outcomes = [t \in Threads |-> <<>>]
    /\ foreign_read = [t \in Threads |-> FALSE]

Init ==
    /\ EngineInit
    /\ raw_probe = PyNone
    /\ probe_out = [ok |-> FALSE, val |-> PyNone]
    /\ precheck = NoCheck
    /\ query = NoQuery

\* Start without line 31: the run keeps the store the engine already has
StartKeepsStore(t) ==
    /\ pc[t] = "idle"
    /\ histories' = Append(histories, <<>>)
    /\ execution_history' = Len(histories) + 1
    /\ hist_by' = Append(hist_by, <<>>)
    /\ pc' = [pc EXCEPT ![t] = "running"]
    /\ UNCHANGED <<stores, output_storage, store_by, function_calls, result,
                   invoked, outcomes, foreign_read, raw_probe, probe_out,
                   precheck, query>>

\* Start without line 30: the run keeps the history the engine already has
StartKeepsHistory(t) ==
    /\ pc[t] = "idle"
    /\ stores' = Append(stores, <<>>)
    /\ output_storage' = Len(stores) + 1
    /\ store_by' = Append(store_by, <<>>)
    /\ pc' = [pc EXCEPT ![t] = "running"]
    /\ UNCHANGED <<histories, execution_history, hist_by, function_calls,
                   result, invoked, outcomes, foreign_read, raw_probe,
                   probe_out, precheck, query>>

\* Start that empties the two objects in place instead of rebinding the
\* fields to new ones
StartClears(t) ==
    /\ pc[t] = "idle"
    /\ histories' = [histories EXCEPT ![execution_history] = <<>>]
    /\ stores' = [stores EXCEPT ![output_storage] = <<>>]
    /\ hist_by' = [hist_by EXCEPT ![execution_history] = <<>>]
    /\ store_by' = [store_by EXCEPT ![output_storage] = <<>>]
    /\ pc' = [pc EXCEPT ![t] = "running"]
    /\ UNCHANGED <<output_storage, execution_history, function_calls, result,
                   invoked, outcomes, foreign_read, raw_probe, probe_out,
                   precheck, query>>

\* self.execution_history = []; self.output_storage = {}
Start(t) ==
    /\ pc[t] = "idle"
    /\ histories' = Append(histories, <<>>)
    /\ execution_history' = Len(histories) + 1
    /\ stores' = Append(stores, <<>>)
    /\ output_storage' = Len(stores) + 1
    /\ hist_by' = Append(hist_by, <<>>)
    /\ store_by' = Append(store_by, <<>>)
    /\ pc' = [pc EXCEPT ![t] = "running"]
    /\ UNCHANGED <<function_calls, result, invoked, outcomes, foreign_read,
                   raw_probe, probe_out,
                   precheck, query>>

\* the keys _execute_step assigned, in order
Written(step_index, function_call, r) ==
    IF r.outputs = PyNone /\ r.storage = Storage THEN <<>>
    ELSE LET output_var == GetOr(function_call[2], PyStr(<<"output_var">>), PyNone)
         IN  <<OutputKey(step_index)>>
             \o (IF r.success /\ Truthy(output_var) THEN <<output_var>> ELSE <<>>)

\* the store key a reference looks up: output_<N> for a positional reference,
\* the first segment for a named one
ReadKey(value) ==
    IF IsTemplateRef(value)
    THEN PyStr(Split(Strip(SubSeq(value[2], 2, Len(value[2]) - 1)), ".")[1])
    ELSE OutputKey(DigitsToInt(VarIndexDigits(value[2])))

\* some reference among the step's raw inputs looks up a key of the current
\* store that another invocation wrote
ReadsForeign(t, call) ==
    /\ IsDict(call)
    /\ IsDict(GetOr(call[2], PyStr(<<"inputs">>), PyDict(<<>>)))
    /\ \E item \in Range(GetOr(call[2], PyStr(<<"inputs">>), PyDict(<<>>))[2]) :
          /\ IsTemplateRef(item[2]) \/ (IsVariableRef(item[2]) /\ VarMatches(item[2][2]))
          /\ HasKey(Storage, ReadKey(item[2]))
          /\ Lookup(store_by[output_storage], ReadKey(item[2])) # t

\* how a step ended: an exception left _execute_step, or its step result
StepOutcome(r) ==
    IF r.raised THEN "raised" ELSE IF r.success THEN "succeeded" ELSE "failed"

RECURSIVE PutAll(_, _, _)
PutAll(d, ks, v) == IF ks = <<>> THEN d ELSE PutAll(Put(d, ks[1], v), Tail(ks), v)

\* StepApply without the return on a failed step: the loop goes on
StepApplyNoHalt(t, call, i, r) ==
    /\ function_calls' = [function_calls EXCEPT ![t] = Append(@, call)]
    /\ stores' = [stores EXCEPT ![output_storage] = r.storage]
    /\ histories' = [histories EXCEPT ![execution_history] = r.history]
    /\ store_by' = [store_by EXCEPT ![output_storage] =
                        PutAll(@, Written(i, call, r), t)]
    /\ hist_by' = [hist_by EXCEPT ![execution_history] =
                        IF r.raised THEN @ ELSE Append(@, t)]
    /\ invoked' = [invoked EXCEPT ![t] = IF r.called THEN Append(@, i) ELSE @]
    /\ outcomes' = [outcomes EXCEPT ![t] = Append(@, StepOutcome(r))]
    /\ foreign_read' = [foreign_read EXCEPT ![t] = @ \/ ReadsForeign(t, call)]
    /\ UNCHANGED <<result, pc, output_storage, execution_history, raw_probe,
                   probe_out,
                   precheck, query>>

\* one iteration of "for i, call in enumerate(function_calls)", r being what
\* self._execute_step(i, call) did
StepApply(t, call, i, r) ==
    /\ function_calls' = [function_calls EXCEPT ![t] = Append(@, call)]
    /\ stores' = [stores EXCEPT ![output_storage] = r.storage]
    /\ histories' = [histories EXCEPT ![execution_history] = r.history]
    /\ store_by' = [store_by EXCEPT ![output_storage] =
                        PutAll(@, Written(i, call, r), t)]
    /\ hist_by' = [hist_by EXCEPT ![execution_history] =
                        IF r.raised THEN @ ELSE Append(@, t)]
    /\ invoked' = [invoked EXCEPT ![t] = IF r.called THEN Append(@, i) ELSE @]
    /\ outcomes' = [outcomes EXCEPT ![t] = Append(@, StepOutcome(r))]
    /\ foreign_read' = [foreign_read EXCEPT ![t] = @ \/ ReadsForeign(t, call)]
    /\ IF r.raised
       THEN /\ result' = [result EXCEPT ![t] =
                    PipelineFailed(r.error, execution_history, output_storage)]
            /\ pc' = [pc EXCEPT ![t] = "done"]
       ELSE IF ~r.success
       THEN /\ result' = [result EXCEPT ![t] =
                    CreateErrorResult(r.error, i, execution_history, output_storage)]
            /\ pc' = [pc EXCEPT ![t] = "done"]
       ELSE UNCHANGED <<result, pc>>
    /\ UNCHANGED <<output_storage, execution_history, raw_probe, probe_out,
                   precheck, query>>

\* StepWith numbering the steps with a counter the engine keeps across calls
\* instead of enumerate's index
StepWithEngineCounter(t, call) ==
    StepApply(t, call, Len(function_calls[1]) + (IF t = 2 THEN Len(function_calls[2]) ELSE 0),
              ExecuteStep(Len(function_calls[1]) + (IF t = 2 THEN Len(function_calls[2]) ELSE 0),
                          call, Storage, History))

StepWith(t, call) ==
    StepApply(t, call, Len(function_calls[t]),
              ExecuteStep(Len(function_calls[t]), call, Storage, History))

Step(t) ==
    /\ pc[t] = "running"
    /\ Len(function_calls[t]) < MaxSteps
    /\ \E call \in Steps : StepWith(t, call)

\* the list is exhausted: return self._create_success_result()
Finish(t) ==
    /\ pc[t] = "running"
    /\ LET f == FinalOutput(Storage) IN
       result' = [result EXCEPT ![t] =
                    IF f.ok
                    THEN CreateSuccessResult(f.val, execution_history, output_storage)
                    ELSE PipelineFailed(f.val, execution_history, output_storage)]
    /\ pc' = [pc EXCEPT ![t] = "done"]
    /\ UNCHANGED <<stores, histories, output_storage, execution_history,
                   function_calls, invoked, outcomes, store_by, hist_by,
                   foreign_read, raw_probe, probe_out,
                   precheck, query>>

(***************************************************************************)
(* Spec: one invocation of execute_pipeline on a freshly constructed       *)
(* engine.                                                                 *)
(***************************************************************************)
Next == Start(1) \/ Step(1) \/ Finish(1)

Spec == Init /\ [][Next]_vars

(***************************************************************************)
(* SpecConc: two request handlers call execute_pipeline on the one engine  *)
(* MCPServer.__init__ creates (self.execution_engine), their steps         *)
(* interleaved at the granularity of Start, Step and Finish.               *)
(***************************************************************************)
MaxConcSteps == 2

ConcSteps ==
    {Call(PyStr(<<"absolute_value">>), x, PyNone) :
        x \in {PyInt(5), PyInt(-7), PyStr(<<"$", "output_", "0", ".", "result">>)}}

StepConc(t) ==
    /\ pc[t] = "running"
    /\ Len(function_calls[t]) < MaxConcSteps
    /\ \E call \in ConcSteps : StepWith(t, call)

NextConc == \E t \in Threads : Start(t) \/ StepConc(t) \/ Finish(t)

SpecConc == Init /\ [][NextConc]_vars

(***************************************************************************)
(* SpecResolve: _resolve_inputs applied to bounded raw inputs, in a run    *)
(* whose step 0 succeeded with outputs drawn from ProbeOutputs (the        *)
(* registry's operations return dicts of any shape).  Probe records what   *)
(* _resolve_inputs returns for the inputs of step 1, ProbeStep is the loop *)
(* iteration of execute_pipeline that executes step 1 with those inputs.   *)
(***************************************************************************)
Item(k, v) == PyDict(<< <<PyStr(k), v>> >>)

ProbeOutputs ==
    {Item(<<"a">>, Item(<<"b">>, PyInt(5))),
     Item(<<"a">>, PyDict(<<>>)),
     Item(<<"a">>, PyNone),
     Item(<<"a">>, PyInt(5)),
     Item(<<"a">>, Item(<<"b">>, Item(<<"c">>, PyInt(7)))),
     PyDict(<< <<PyStr(<<"b">>), PyInt(7)>>,
               <<PyStr(<<"a">>), Item(<<"b">>, PyStr(<<"$", "output_", "0">>))>> >>)}

ProbeAliases == {PyNone, PyStr(<<"x">>), PyStr(<<>>)}

\* field paths: sequences of field names
PathPool ==
    {<<>>, << <<"a">> >>, << <<"b">> >>, << <<"a">>, <<"b">> >>,
     << <<"a">>, <<"b">>, <<"c">> >>}

\* ".f1.f2...": each field preceded by a "."
RECURSIVE Dotted(_)
Dotted(path) ==
    IF path = <<>> THEN <<>> ELSE <<".">> \o path[1] \o Dotted(Tail(path))

\* the text "$output_<k>.f1.f2..."
PosRef(k, path) == <<"$", "output_">> \o IntToStr(k) \o Dotted(path)

\* the text "{{<name>.f1.f2...}}"
NameRef(name, path) == <<"{{">> \o name \o Dotted(path) \o <<"}}">>

ProbeRefs ==
    {PyStr(PosRef(0, p)) : p \in PathPool}
    \cup {PyStr(NameRef(<<"x">>, p)) : p \in PathPool}
    \cup {PyStr(NameRef(<<"output_", "0">>, p)) : p \in PathPool}
    \cup {PyStr(PosRef(1, <<>>)),
          PyStr(<<"{{", " ", "x", ".", "a", " ", "}}">>),
          PyStr(<<"{{", "december_invoices", ".", "a", "}}">>),
          PyStr(<<"{{", "y", "}}">>),
          PyStr(<<"{{", "december_invoices", "}}">>),
          PyStr(<<"{{", "invoice_summary", "}}">>),
          PyStr(<<"{{", "high_value_invoices", "}}">>),
          PyStr(<<"{{", "}}">>),
          PyStr(<<"{{", ".", "a", "}}">>)}

ProbeLiterals ==
    {PyInt(5), PyNone, PyList(<<PyStr(<<"$", "output_", "0">>)>>),
     Item(<<"k">>, PyStr(<<"{{", "x", "}}">>)),
     PyStr(<<>>), PyStr(<<"hello">>),
     PyStr(<<"hello", "$", "output_", "0">>),
     PyStr(<<"{{", "x">>), PyStr(<<"x", "}}">>)}

\* strings that start with "$" and are no well-formed positional reference
ProbeDollar ==
    {PyStr(<<"$", "5">>), PyStr(<<"$", "output_">>),
     PyStr(<<"$", "output_", "0", "hello">>),
     PyStr(<<"$", "output_", "0", ".">>)}

ProbeRaws == ProbeRefs \cup ProbeLiterals \cup ProbeDollar

\* raw inputs of one or two entries
ProbeInputs ==
    {PyDict(<< <<PyStr(<<"number">>), x>> >>) : x \in ProbeRaws}
    \cup {PyDict(<< <<PyStr(<<"a">>), x>>, <<PyStr(<<"b">>), y>> >>) :
              x \in ProbeLiterals, y \in ProbeRaws}

NoProbe == [ok |-> FALSE, val |-> PyNone]

ProbeDone == probe_out # NoProbe

\* the engine after step 0 of a run returned outputs, r being what
\* _execute_step did
ProbeState(call, r) ==
    /\ stores = << <<>>, r.storage >>
    /\ histories = << <<>>, r.history >>
    /\ output_storage = 2
    /\ execution_history = 2
    /\ store_by = << <<>>, [n \in DOMAIN r.storage |-> <<r.storage[n][1], 1>>] >>
    /\ hist_by = << <<>>, <<1>> >>
    /\ function_calls = [t \in Threads |-> IF t = 1 THEN <<call>> ELSE <<>>]
    /\ pc = [t \in Threads |-> IF t = 1 THEN "running" ELSE "idle"]
    /\ result = [t \in Threads |-> NoResult]
    /\ invoked = [t \in Threads |-> IF t = 1 THEN <<0>> ELSE <<>>]
    /\ outcomes = [t \in Threads |-> IF t = 1 THEN <<"succeeded">> ELSE <<>>]
    /\ foreign_read = [t \in Threads |-> FALSE]

ProbeInit ==
    /\ \E outputs \in ProbeOutputs, a \in ProbeAliases :
          ProbeState(Call(PyStr(<<"op">>), PyInt(5), a),
                     StepStore(0, PyStr(<<"op">>),
                               Item(<<"number">>, PyInt(5)),
                               Item(<<"number">>, PyInt(5)),
                               outputs, a, <<>>, <<>>))
    /\ raw_probe \in ProbeInputs
    /\ probe_out = NoProbe
    /\ precheck = NoCheck
    /\ query = NoQuery

\* resolved_inputs = self._resolve_inputs(raw_inputs) of the next step
Probe ==
    /\ ~ProbeDone
    /\ probe_out' = ResolveInputs(raw_probe, Storage, History)
    /\ UNCHANGED <<stores, histories, output_storage, execution_history,
                   function_calls, pc, result, invoked, outcomes, store_by,
                   hist_by, foreign_read, raw_probe, precheck, query>>

\* step 1 of the run: a call of absolute_value whose inputs are raw_probe
ProbeCall ==
    PyDict(<< <<PyStr(<<"function">>), PyStr(<<"absolute_value">>)>>,
              <<PyStr(<<"inputs">>), raw_probe>> >>)

\* the loop iteration of execute_pipeline for step 1
ProbeStep ==
    /\ ProbeDone
    /\ pc[1] = "running"
    /\ Len(function_calls[1]) = 1
    /\ StepWith(1, ProbeCall)

NextResolve == Probe \/ ProbeStep

SpecResolve == ProbeInit /\ [][NextResolve]_vars

(***************************************************************************)
(* validate_function_calls and dry_run.  Neither reads or writes the       *)
(* engine's two fields; both read the registry.                            *)
(***************************************************************************)

\* self.function_library.get_function_metadata(): the registry without the
\* callables, which Functions does not hold
GetFunctionMetadata == Functions

StepPrefix(i) == <<"Step ">> \o IntToStr(i) \o <<": ">>

Invalid(msg) == Return(PyTuple(<<PyBool(FALSE), PyStr(msg)>>))

\* "param_name not in provided_inputs" for the parameters in schema order:
\* the indices of the parameters that are missing
\* a membership test that finds every parameter name
InAlways(x, container) == TRUE

\* "x in container" for a dict (its keys), a list (its elements) and a str
\* (x as a substring)
In(x, container) ==
    CASE container[1] = "dict" -> HasKey(container[2], x)
      [] container[1] = "str" ->
            \E n \in 0..Len(container[2]) :
                SubSeq(container[2], n + 1, n + Len(x[2])) = x[2]
      [] OTHER -> x \in Range(container[2])

MissingParams(required_inputs, provided_inputs) ==
    {n \in DOMAIN required_inputs : ~In(required_inputs[n][1], provided_inputs)}

\* the body of the loop of validate_function_calls for step i: an exception,
\* a returned (False, message), or Return(PyNone) when the loop goes on
ValidateCall(i, call) ==
    IF ~IsDict(call)
    THEN Raise(<<"'", call[1], "' object has no attribute 'get'">>)
    ELSE LET function_name == GetOr(call[2], PyStr(<<"function">>), PyNone)
             provided_inputs == GetOr(call[2], PyStr(<<"inputs">>), PyDict(<<>>))
         IN  IF ~Truthy(function_name)
             THEN Invalid(StepPrefix(i) \o <<"Missing function name">>)
             ELSE IF ~Hashable(function_name)
             THEN Raise(<<"unhashable type: '", function_name[1], "'">>)
             ELSE IF ~HasKey(GetFunctionMetadata, function_name)
             THEN Invalid(StepPrefix(i) \o <<"Function '">>
                          \o (IF IsStr(function_name) THEN function_name[2]
                              ELSE <<function_name[1]>>)
                          \o <<"' not found">>)
             ELSE IF Lookup(GetFunctionMetadata, function_name).inputs = <<>>
             THEN Return(PyNone)
             ELSE IF provided_inputs[1] \notin {"dict", "list", "str", "tuple"}
             THEN Raise(<<"argument of type '",
                          IF provided_inputs = PyNone THEN "NoneType" ELSE provided_inputs[1],
                          "' is not iterable">>)
             ELSE LET required_inputs == Lookup(GetFunctionMetadata, function_name).inputs
                      missing == MissingParams(required_inputs, provided_inputs)
                  IN  IF missing = {} THEN Return(PyNone)
                      ELSE Invalid(StepPrefix(i) \o <<"Missing required parameter '">>
                                   \o required_inputs[CHOOSE n \in missing :
                                          \A m \in missing : n <= m][1][2]
                                   \o <<"' for function '">> \o function_name[2]
                                   \o <<"'">>)

\* the loop "for i, call in enumerate(function_calls)" from element n on
RECURSIVE ValidateFrom(_, _)
ValidateFrom(calls, n) ==
    IF n > Len(calls)
    THEN Return(PyTuple(<<PyBool(TRUE), PyStr(<<"Validation passed">>)>>))
    ELSE IF ValidateCall(n - 1, calls[n]) # Return(PyNone)
    THEN ValidateCall(n - 1, calls[n])
    ELSE ValidateFrom(calls, n + 1)

\* ExecutionEngine.validate_function_calls
ValidateFunctionCalls(calls) == ValidateFrom(calls, 1)

\* plan_step for element n, its "inputs" entry being present
PlanStep(calls, n) ==
    PyDict(<< <<PyStr(<<"step">>), PyInt(n - 1)>>,
              <<PyStr(<<"function">>),
                Lookup(calls[n][2], PyStr(<<"function">>))>>,
              <<PyStr(<<"inputs">>),
                Lookup(calls[n][2], PyStr(<<"inputs">>))>>,
              <<PyStr(<<"description">>),
                PyStr(Lookup(Functions,
                             Lookup(calls[n][2],
                                    PyStr(<<"function">>))).description)>> >>)

\* the loop that fills execution_plan, from element n on; call["inputs"]
\* raises KeyError when the step has no "inputs" entry
RECURSIVE PlanFrom(_, _, _)
PlanFrom(calls, n, execution_plan) ==
    IF n > Len(calls) THEN Return(PyList(execution_plan))
    ELSE IF ~HasKey(calls[n][2], PyStr(<<"inputs">>))
    THEN Raise(<<"'", "inputs", "'">>)
    ELSE PlanFrom(calls, n + 1,
                  Append(execution_plan, PlanStep(calls, n)))

\* the report dry_run builds from what validate_function_calls returned
DryRunReport(calls, validation, plan) ==
    IF ~validation.ok THEN validation
    ELSE IF ~validation.val[2][1][2]
    THEN Return(PyDict(<< <<PyStr(<<"valid">>), PyBool(FALSE)>>,
                          <<PyStr(<<"error">>), validation.val[2][2]>>,
                          <<PyStr(<<"function_calls">>), PyList(calls)>> >>))
    ELSE IF ~plan.ok THEN plan
    ELSE Return(PyDict(<< <<PyStr(<<"valid">>), PyBool(TRUE)>>,
                          <<PyStr(<<"message">>),
                            PyStr(<<"Pipeline is valid and ready for execution">>)>>,
                          <<PyStr(<<"execution_plan">>), plan.val>>,
                          <<PyStr(<<"total_steps">>), PyInt(Len(calls))>> >>))

\* ExecutionEngine.dry_run
DryRun(calls) ==
    DryRunReport(calls, ValidateFunctionCalls(calls),
                 PlanFrom(calls, 1, <<>>))

(***************************************************************************)
(* SpecValidate: an engine that has executed a pipeline is handed a step   *)
(* list for validation and for a dry run.                                  *)
(***************************************************************************)
MaxValSteps == 2

\* absent from a step: the entry is left out of the dict
NoEntry == <<"absent", "absent">>

ValFunctions ==
    {NoEntry, PyStr(<<>>), PyStr(<<"absolute_value">>), PyStr(<<"generate_uuid">>),
     PyStr(<<"foo">>)}

ValInputs ==
    {NoEntry, PyDict(<<>>), Item(<<"number">>, PyInt(5)),
     Item(<<"number">>, PyStr(<<"$", "output_", "9">>))}

ValCall(f, x) ==
    PyDict((IF f = NoEntry THEN <<>> ELSE << <<PyStr(<<"function">>), f>> >>)
           \o (IF x = NoEntry THEN <<>> ELSE << <<PyStr(<<"inputs">>), x>> >>))

ValSteps == {ValCall(f, x) : f \in ValFunctions, x \in ValInputs}

ValLists == UNION {[1..n -> ValSteps] : n \in 0..MaxValSteps}

\* is_valid, message = engine.validate_function_calls(function_calls)
CallValidate ==
    /\ pc[1] = "done"
    /\ precheck = NoCheck
    /\ \E calls \in ValLists :
          precheck' = [function_calls |-> calls,
                       validation |-> ValidateFunctionCalls(calls),
                       dry_run |-> NoOutcome]
    /\ UNCHANGED <<stores, histories, output_storage, execution_history,
                   function_calls, pc, result, invoked, outcomes, store_by,
                   hist_by, foreign_read, raw_probe, probe_out, query>>

\* engine.dry_run(function_calls) on the same list
CallDryRun ==
    /\ precheck.validation # NoOutcome
    /\ precheck.dry_run = NoOutcome
    /\ precheck' = [precheck EXCEPT !.dry_run = DryRun(precheck.function_calls)]
    /\ UNCHANGED <<stores, histories, output_storage, execution_history,
                   function_calls, pc, result, invoked, outcomes, store_by,
                   hist_by, foreign_read, raw_probe, probe_out, query>>

NextValidate == Start(1) \/ StepConc(1) \/ Finish(1) \/ CallValidate \/ CallDryRun

SpecValidate == Init /\ [][NextValidate]_vars

(***************************************************************************)
(* SpecSeq: execute_pipeline called twice in sequence on one engine, the   *)
(* second call made after the first has returned.                          *)
(***************************************************************************)
MaxSeqSteps == 2

SeqSteps ==
    {Call(PyStr(<<"absolute_value">>), PyInt(-7), PyStr(<<"x">>)),
     Call(PyStr(<<"absolute_value">>), PyInt(5), PyNone),
     Call(PyStr(<<"absolute_value">>), PyStr(<<"$", "output_", "0", ".", "result">>), PyNone),
     Call(PyStr(<<"absolute_value">>), PyStr(<<"{{", "x", ".", "result", "}}">>), PyNone),
     Call(PyStr(<<"foo">>), PyInt(5), PyNone),
     Malformed}

StepSeq(t) ==
    /\ pc[t] = "running"
    /\ Len(function_calls[t]) < MaxSeqSteps
    /\ \E call \in SeqSteps : StepWith(t, call)

\* the second call: the first one has returned its result
StartNext == pc[1] = "done" /\ Start(2)

NextSeq ==
    Start(1) \/ StepSeq(1) \/ Finish(1) \/ StartNext \/ StepSeq(2) \/ Finish(2)

SpecSeq == Init /\ [][NextSeq]_vars

(***************************************************************************)
(* SpecQuery: one request to MCPServer.process_user_query or to            *)
(* MCPServer.plan_user_query on a fresh server.  The planner               *)
(* (OllamaInterface.parse_user_query) is a language model: its answer is   *)
(* any list of steps that have a "function" and an "inputs" entry, or the  *)
(* empty list.  The texts user_query, summary and timestamp of a response  *)
(* carry nothing of the engine and are left out of it.                     *)
(***************************************************************************)
MaxQuerySteps == 2

PlanFunctions ==
    {PyStr(<<"absolute_value">>), PyStr(<<"generate_uuid">>), PyStr(<<"foo">>), PyNone}

PlanInputs ==
    {Item(<<"number">>, PyInt(-7)),
     Item(<<"number">>, PyStr(<<"$", "output_", "1", ".", "result">>)),
     PyDict(<<>>),
     PyList(<<PyStr(<<"number">>)>>)}

\* {"function": f, "inputs": x}
PlannedCall(f, x) ==
    PyDict(<< <<PyStr(<<"function">>), f>>, <<PyStr(<<"inputs">>), x>> >>)

PlanSteps == {PlannedCall(f, x) : f \in PlanFunctions, x \in PlanInputs}

\* what parse_user_query can return
PlannerOutputs == UNION {[1..n -> PlanSteps] : n \in 0..MaxQuerySteps}

\* the failure responses of process_user_query and plan_user_query
QueryFailed(msg) == [success |-> FALSE, error |-> PyStr(msg)]

\* function_calls = self.ollama_interface.parse_user_query(...), and the
\* return under "if not function_calls"
ParseUserQuery ==
    /\ query.stage = "idle"
    /\ \E entry \in {"process", "plan"}, calls \in PlannerOutputs :
          query' = [entry |-> entry, function_calls |-> calls,
                    stage |-> IF calls = <<>> THEN "returned" ELSE "planned",
                    response |-> IF calls = <<>>
                                 THEN QueryFailed(<<"Could not parse user query into function calls">>)
                                 ELSE NoResult]
    /\ UNCHANGED <<stores, histories, output_storage, execution_history,
                   function_calls, pc, result, invoked, outcomes, store_by,
                   hist_by, foreign_read, raw_probe, probe_out, precheck>>

\* ValidationResponse that goes on to execution whatever the validator did
ValidationIgnored(v) == [query EXCEPT !.stage = "validated"]

\* step 2 of process_user_query, v being what validate_function_calls did
ValidationResponse(v) ==
    IF ~v.ok
    THEN [query EXCEPT !.stage = "returned",
                       !.response = QueryFailed(<<"Validation error: ">> \o v.val[2])]
    ELSE IF ~v.val[2][1][2]
    THEN [query EXCEPT !.stage = "returned",
                       !.response = QueryFailed(<<"Invalid execution plan: ">> \o v.val[2][2][2])]
    ELSE [query EXCEPT !.stage = "validated"]

ValidatePlan ==
    /\ query.entry = "process"
    /\ query.stage = "planned"
    /\ query' = ValidationResponse(ValidateFunctionCalls(query.function_calls))
    /\ UNCHANGED <<stores, histories, output_storage, execution_history,
                   function_calls, pc, result, invoked, outcomes, store_by,
                   hist_by, foreign_read, raw_probe, probe_out, precheck>>

\* step 3 of process_user_query: self.execution_engine.execute_pipeline(
\* function_calls), its loop taking the planner's steps in order
StartQuery == query.stage = "validated" /\ Start(1)

StepQuery ==
    /\ query.stage = "validated"
    /\ pc[1] = "running"
    /\ Len(function_calls[1]) < Len(query.function_calls)
    /\ StepWith(1, query.function_calls[Len(function_calls[1]) + 1])

FinishQuery ==
    /\ query.stage = "validated"
    /\ Len(function_calls[1]) = Len(query.function_calls)
    /\ Finish(1)

\* the return of process_user_query after execute_pipeline returned
Respond ==
    /\ query.stage = "validated"
    /\ pc[1] = "done"
    /\ query' = [query EXCEPT !.stage = "returned",
                              !.response = [success |-> result[1].success,
                                            function_calls |-> query.function_calls,
                                            execution_result |-> result[1]]]
    /\ UNCHANGED <<stores, histories, output_storage, execution_history,
                   function_calls, pc, result, invoked, outcomes, store_by,
                   hist_by, foreign_read, raw_probe, probe_out, precheck>>

\* plan_user_query after the planner: the dry run and the return; an
\* exception of dry_run leaves plan_user_query
DryRunResponse(d) ==
    IF d.ok THEN [function_calls |-> query.function_calls, dry_run_result |-> d.val]
    ELSE [escaped |-> d.val]

DryRunPlan ==
    /\ query.entry = "plan"
    /\ query.stage = "planned"
    /\ query' = [query EXCEPT !.stage = "returned",
                              !.response = DryRunResponse(DryRun(query.function_calls))]
    /\ UNCHANGED <<stores, histories, output_storage, execution_history,
                   function_calls, pc, result, invoked, outcomes, store_by,
                   hist_by, foreign_read, raw_probe, probe_out, precheck>>

NextQuery ==
    \/ ParseUserQuery
    \/ ValidatePlan
    \/ StartQuery
    \/ StepQuery
    \/ FinishQuery
    \/ Respond
    \/ DryRunPlan

SpecQuery == Init /\ [][NextQuery]_vars

(***************************************************************************)
(* SpecAlias: one run on a fresh engine whose steps declare output_var     *)
(* values of every kind a JSON step list can hold.                         *)
(***************************************************************************)
MaxAliasSteps == 3

AliasValues ==
    {PyNone, PyStr(<<"x">>), PyStr(<<>>), PyInt(0), PyList(<<>>),
     PyList(<<PyStr(<<"x">>)>>), Item(<<"k">>, PyInt(1))}

AliasRaws ==
    {PyInt(-7), PyStr(<<"$", "output_", "0", ".", "result">>),
     PyStr(<<"{{", "x", ".", "result", "}}">>), PyStr(<<"a">>)}

AliasSteps ==
    {Call(PyStr(<<"absolute_value">>), x, a) : x \in AliasRaws, a \in AliasValues}
    \cup {Call(PyStr(<<"foo">>), PyInt(-7), a) : a \in AliasValues}

StepAlias(t) ==
    /\ pc[t] = "running"
    /\ Len(function_calls[t]) < MaxAliasSteps
    /\ \E call \in AliasSteps : StepWith(t, call)

NextAlias == Start(1) \/ StepAlias(1) \/ Finish(1)

SpecAlias == Init /\ [][NextAlias]_vars

(***************************************************************************)
(* SpecReuse: an engine that has returned the result of a run is used      *)
(* again: for a second run, for a validation and for a dry run of the      *)
(* step list it has just executed.                                         *)
(***************************************************************************)
\* no call of the engine is in progress
EngineFree == pc[1] = "done" /\ pc[2] \in {"idle", "done"}

\* engine.validate_function_calls(function_calls) after the run returned
ValidateAfter ==
    /\ EngineFree
    /\ precheck = NoCheck
    /\ precheck' = [function_calls |-> function_calls[1],
                    validation |-> ValidateFunctionCalls(function_calls[1]),
                    dry_run |-> NoOutcome]
    /\ UNCHANGED <<stores, histories, output_storage, execution_history,
                   function_calls, pc, result, invoked, outcomes, store_by,
                   hist_by, foreign_read, raw_probe, probe_out, query>>

\* engine.dry_run(function_calls) after the run returned
DryRunAfter ==
    /\ EngineFree
    /\ precheck.dry_run = NoOutcome
    /\ precheck' = [function_calls |-> function_calls[1],
                    validation |-> precheck.validation,
                    dry_run |-> DryRun(function_calls[1])]
    /\ UNCHANGED <<stores, histories, output_storage, execution_history,
                   function_calls, pc, result, invoked, outcomes, store_by,
                   hist_by, foreign_read, raw_probe, probe_out, query>>

NextReuse ==
    \/ Start(1) \/ StepSeq(1) \/ Finish(1)
    \/ StartNext \/ StepSeq(2) \/ Finish(2)
    \/ ValidateAfter
    \/ DryRunAfter

SpecReuse == Init /\ [][NextReuse]_vars

(***************************************************************************)
(* The claims.                                                             *)
(***************************************************************************)
Done(t) == pc[t] = "done"

\* the history and the store a returned result refers to
ResultHistory(t) == histories[result[t].execution_history]

ResultStore(t) ==
    stores[IF result[t].success THEN result[t].all_outputs
           ELSE result[t].partial_outputs]

AllStepsSucceeded(t) ==
    \A n \in DOMAIN outcomes[t] : outcomes[t][n] = "succeeded"

\* the store keys of the form output_<digits>
PositionalKeys(storage) ==
    {k \in Keys(storage) :
        /\ IsStr(k) /\ Len(k[2]) >= 2 /\ k[2][1] = "output_"
        /\ \A n \in 2..Len(k[2]) : k[2][n] \in Digits}

KeyIndex(k) == DigitsToInt(Tail(k[2]))

HighestKey(storage) ==
    CHOOSE k \in PositionalKeys(storage) :
        \A j \in PositionalKeys(storage) : KeyIndex(j) <= KeyIndex(k)

\* C1: when every step of a list of N steps succeeds, whatever aliases the
\* steps declare, the result has success = true, a history of exactly N
\* records, all of them successful, and final_output is the value stored under
\* the highest-indexed output_k key.
C1_AllSucceedResult ==
    \A t \in Threads :
        (Done(t) /\ AllStepsSucceeded(t)) =>
            /\ result[t].success
            /\ Len(ResultHistory(t)) = Len(function_calls[t])
            /\ \A n \in DOMAIN ResultHistory(t) : ResultHistory(t)[n].success
            /\ PositionalKeys(ResultStore(t)) # {} =>
                   result[t].final_output
                       = Lookup(ResultStore(t), HighestKey(ResultStore(t)))

\* C2: if step i is the step that fails, the result has success = false,
\* failed_step = i, a history of exactly i+1 records, and a partial store with
\* no key output_j for j > i.
C2_FailedStepResult ==
    \A t \in Threads : \A i \in 0..MaxSteps :
        (Done(t) /\ Len(outcomes[t]) = i + 1 /\ outcomes[t][i + 1] = "failed") =>
            /\ ~result[t].success
            /\ result[t].failed_step = i
            /\ Len(ResultHistory(t)) = i + 1
            /\ \A k \in PositionalKeys(ResultStore(t)) : KeyIndex(k) <= i

\* C3: within one run the operations are invoked in declaration order and
\* fail-fast: the operation of step i is invoked only after steps 0..i-1 have
\* all succeeded, each step's operation is invoked at most once, and once a
\* step has failed no operation of a later step is invoked.
C3_InOrderFailFast ==
    \A t \in Threads : \A n \in DOMAIN invoked[t] :
        /\ \A m \in DOMAIN invoked[t] : m < n => invoked[t][m] < invoked[t][n]
        /\ \A j \in 1..invoked[t][n] : outcomes[t][j] = "succeeded"
        /\ \A j \in DOMAIN outcomes[t] :
               outcomes[t][j] # "succeeded" => invoked[t][n] <= j - 1

\* a run whose second step's operation was invoked and raised, after which
\* the run returned
C3_Witness ==
    /\ Done(1)
    /\ outcomes[1] = <<"succeeded", "failed">>
    /\ invoked[1] = <<0, 1>>

\* C4: concurrent invocations on the shared engine are isolated: a reference
\* in one run never resolves to a value produced by a step of another run,
\* and the history and store returned for a run hold only records and outputs
\* of that run's own steps.
C4_RunsIsolated ==
    \A t \in Threads :
        /\ ~foreign_read[t]
        /\ Done(t) =>
             /\ \A n \in DOMAIN hist_by[result[t].execution_history] :
                    hist_by[result[t].execution_history][n] = t
             /\ \A n \in DOMAIN ResultStore(t) :
                    Lookup(store_by[IF result[t].success THEN result[t].all_outputs
                                    ELSE result[t].partial_outputs],
                           ResultStore(t)[n][1]) = t

\* C5: during a run the output store is append-only: a key, once written, is
\* never removed and never rebound to a different value, also when a later
\* step declares an alias equal to an existing key.
C5_AppendOnly ==
    [][\A id \in DOMAIN stores : \A k \in Keys(stores[id]) :
          /\ HasKey(stores'[id], k)
          /\ Lookup(stores'[id], k) = Lookup(stores[id], k)]_vars

\* the positional references to output_k, k >= i, over the field paths used
ForwardRefs(i) ==
    {PosRef(k, p) : k \in i..(Len(DigitSeq) - 1),
                    p \in {<<>>, << <<"result">> >>}}

\* C6: a positional reference to output_k in the inputs of step i with k >= i
\* is invalid: resolving it fails with an output-not-found error and step i
\* fails, whatever aliases earlier steps declared.
C6_ForwardReferenceFails ==
    \A n \in DOMAIN outcomes[1] :
        \A ref \in ForwardRefs(n - 1) :
            (/\ IsDict(function_calls[1][n])
             /\ \E item \in Range(Lookup(function_calls[1][n][2],
                                         PyStr(<<"inputs">>))[2]) :
                    item[2] = PyStr(ref)) =>
                /\ outcomes[1][n] = "failed"
                /\ History[n].error
                     = PyStr(<<"Error resolving variable ">> \o ref \o <<": ", "Output ">>
                             \o OutputKey(DigitsToInt(VarIndexDigits(ref)))[2]
                             \o <<" not found">>)

\* C7: the final output of a successful run of N >= 1 steps is the result of
\* step N-1, whatever aliases the steps declared.
C7_FinalOutputIsLastStep ==
    \A t \in Threads :
        (Done(t) /\ result[t].success /\ Len(function_calls[t]) >= 1) =>
            result[t].final_output
                = ResultHistory(t)[Len(function_calls[t])].outputs

\* the tokens that are no run of word characters
Punctuation == {"$", "{{", "}}", ".", " "}

\* the pattern ^\$output_(\d+)(\.\w[\w.]*)?$ of the specification
SpecPositional(s) ==
    /\ Len(s) >= 3 /\ s[1] = "$" /\ s[2] = "output_" /\ s[3] \in Digits
    /\ LET rest == Drop(s, 2 + LeadLen(Drop(s, 2), Digits))
       IN  \/ rest = <<>>
           \/ /\ Len(rest) >= 2 /\ rest[1] = "."
              /\ rest[2] \notin Punctuation
              /\ \A n \in 2..Len(rest) : rest[n] \notin (Punctuation \ {"."})

\* the surface syntax {{...}}
SpecNamed(s) == Len(s) >= 2 /\ s[1] = "{{" /\ s[Len(s)] = "}}"

SpecLiteral(v) == ~IsStr(v) \/ (~SpecPositional(v[2]) /\ ~SpecNamed(v[2]))

\* a value the engine does not treat as a reference
CodeLiteral(v) ==
    ~IsStr(v) \/ (~(v[2] # <<>> /\ v[2][1] = "$") /\ ~SpecNamed(v[2]))

ProbeItems == raw_probe[2]

\* C8 as stated: a raw input value that is not a string, or a string that
\* matches neither the positional pattern ^\$output_(\d+)(\.\w[\w.]*)?$ nor
\* the {{...}} syntax, is handed on unchanged and never makes resolution fail.
C8_LiteralPassThroughAsStated ==
    ProbeDone =>
        /\ (\A n \in DOMAIN ProbeItems : SpecLiteral(ProbeItems[n][2]))
               => probe_out.ok
        /\ probe_out.ok =>
               \A n \in DOMAIN ProbeItems :
                   SpecLiteral(ProbeItems[n][2]) =>
                       Lookup(probe_out.val[2], ProbeItems[n][1]) = ProbeItems[n][2]

\* C8: a raw input value that is not a string, or a string that neither
\* starts with "$" nor both starts with "{{" and ends with "}}", is handed on
\* unchanged and never makes resolution fail.
C8_LiteralPassThrough ==
    ProbeDone =>
        /\ (\A n \in DOMAIN ProbeItems : CodeLiteral(ProbeItems[n][2]))
               => probe_out.ok
        /\ probe_out.ok =>
               \A n \in DOMAIN ProbeItems :
                   CodeLiteral(ProbeItems[n][2]) =>
                       Lookup(probe_out.val[2], ProbeItems[n][1]) = ProbeItems[n][2]

\* a string with reference text in its middle, and one that opens a template
\* without closing it, both handed on as they are
C8_Witness ==
    /\ ProbeDone
    /\ raw_probe = PyDict(<< <<PyStr(<<"a">>), PyStr(<<"hello", "$", "output_", "0">>)>>,
                            <<PyStr(<<"b">>), PyStr(<<"{{", "x">>)>> >>)
    /\ probe_out = Return(raw_probe)

\* C9: for a succeeded step k that declared alias x and any field path p,
\* the named reference {{x.p}} resolved in a later step has the same outcome
\* (same value, or failure) as the positional reference $output_k.p.
C9_NamedEqualsPositional ==
    pc[1] = "running" =>
        \A n \in DOMAIN History :
            (History[n].success /\ IsStr(History[n].output_var)) =>
                \A p \in {<<>>, << <<"result">> >>} :
                    LET named == ResolveTemplateVariable(
                                     NameRef(History[n].output_var[2], p),
                                     Storage, History)
                        positional == ResolveVariable(PosRef(History[n].step, p),
                                                      Storage)
                    IN  /\ named.ok = positional.ok
                        /\ named.ok => named.val = positional.val

\* v[f1][f2]...[fn]
RECURSIVE Walk(_, _)
Walk(v, path) ==
    IF path = <<>> THEN v ELSE Walk(Lookup(v[2], PyStr(path[1])), Tail(path))

\* every prefix of the path leads to a map that holds the next key with a
\* non-null value
RECURSIVE WalkOK(_, _)
WalkOK(v, path) ==
    \/ path = <<>>
    \/ /\ IsDict(v)
       /\ HasKey(v[2], PyStr(path[1]))
       /\ Lookup(v[2], PyStr(path[1])) # PyNone
       /\ WalkOK(Lookup(v[2], PyStr(path[1])), Tail(path))

\* the store key a reference text over PathPool names, and its path
RefTargets ==
    {<<PosRef(0, p), <<"output_", "0">>, p>> : p \in PathPool}
    \cup {<<NameRef(name, p), name, p>> :
              name \in {<<"x">>, <<"output_", "0">>}, p \in PathPool}

\* C10: resolving a reference with field path f1.f2...fn against a stored
\* value v in which every prefix leads to a map holding the next key with a
\* non-null value returns v[f1][f2]...[fn]; a reference with no field path
\* returns the whole stored value.
C10_NavigationLeftToRight ==
    ProbeDone =>
        \A n \in DOMAIN ProbeItems : \A ref \in RefTargets :
            (/\ ProbeItems[n][2] = PyStr(ref[1])
             /\ HasKey(Storage, PyStr(ref[2]))
             /\ WalkOK(Lookup(Storage, PyStr(ref[2])), ref[3])) =>
                /\ probe_out.ok
                /\ Lookup(probe_out.val[2], ProbeItems[n][1])
                     = Walk(Lookup(Storage, PyStr(ref[2])), ref[3])

\* $output_0.a.b against {output_0: {a: {b: 5}}} yields 5
C10_Witness ==
    /\ ProbeDone
    /\ Lookup(Storage, OutputKey(0)) = Item(<<"a">>, Item(<<"b">>, PyInt(5)))
    /\ raw_probe = Item(<<"number">>, PyStr(<<"$", "output_", "0", ".", "a", ".", "b">>))
    /\ probe_out = Return(Item(<<"number">>, PyInt(5)))

\* the first segment of the path at which navigation from v cannot go on, with
\* the kind of the obstacle; <<"ok", <<>>>> when the whole path can be walked
RECURSIVE FirstOffending(_, _)
FirstOffending(v, path) ==
    IF path = <<>> THEN <<"ok", <<>>>>
    ELSE IF ~IsDict(v) THEN <<"not_a_container", path[1]>>
    ELSE IF ~HasKey(v[2], PyStr(path[1])) \/ Lookup(v[2], PyStr(path[1])) = PyNone
    THEN <<"field_not_found", path[1]>>
    ELSE FirstOffending(Lookup(v[2], PyStr(path[1])), Tail(path))

\* the error text of a failed navigation of reference text ref
NavigationError(ref, offending) ==
    PyStr((IF ref[1] = "$" THEN <<"Error resolving variable ">>
           ELSE <<"Error resolving template variable ">>)
          \o ref \o <<": ">>
          \o (IF offending[1] = "not_a_container"
              THEN <<"Cannot access field '">> \o offending[2] \o <<"' on non-dict data">>
              ELSE <<"Field '">> \o offending[2] \o <<"' not found">>))

StepOneDone == Len(function_calls[1]) = 2

\* C11: navigation fails at the first offending segment, with a
\* not-a-container error naming the segment when the current value is no map
\* and a field-not-found error naming it when the key is absent or null; the
\* step then fails, its operation is not invoked and nothing is stored for it.
C11_NavigationFailsAtFirstOffending ==
    ProbeDone =>
        \A n \in DOMAIN ProbeItems : \A ref \in RefTargets :
            (/\ ProbeItems[n][2] = PyStr(ref[1])
             /\ HasKey(Storage, PyStr(ref[2]))
             /\ FirstOffending(Lookup(Storage, PyStr(ref[2])), ref[3])[1] # "ok") =>
                LET msg == NavigationError(ref[1],
                               FirstOffending(Lookup(Storage, PyStr(ref[2])), ref[3]))
                IN  /\ ~probe_out.ok
                    /\ probe_out.val = msg
                    /\ StepOneDone =>
                          /\ outcomes[1] = <<"succeeded", "failed">>
                          /\ invoked[1] = <<0>>
                          /\ ~HasKey(Storage, OutputKey(1))
                          /\ History[2].error = msg
                          /\ ~result[1].success /\ result[1].failed_step = 1

\* $output_0.a.b against {output_0: {a: {}}} fails with field-not-found for b
\* and step 1 has failed
C11_Witness ==
    /\ StepOneDone
    /\ Lookup(Storage, OutputKey(0)) = Item(<<"a">>, PyDict(<<>>))
    /\ raw_probe = Item(<<"number">>, PyStr(<<"$", "output_", "0", ".", "a", ".", "b">>))
    /\ probe_out.val = PyStr(<<"Error resolving variable ", "$", "output_", "0", ".", "a",
                               ".", "b", ": ", "Field '", "b", "' not found">>)
    /\ outcomes[1] = <<"succeeded", "failed">>

\* the first segments of the named references probed
NamePool ==
    {<<"x">>, <<"y">>, <<>>, <<"output_", "0">>, <<"december_invoices">>,
     <<"invoice_summary">>, <<"high_value_invoices">>}

\* the legacy mappings, <<>> for a name that has none
LegacyKey(name) ==
    CASE name = <<"december_invoices">> -> <<"output_", "0">>
      [] name = <<"invoice_summary">> -> <<"output_", "1">>
      [] name = <<"high_value_invoices">> -> <<"output_", "1">>
      [] OTHER -> <<>>

AliasRecords(name) ==
    {n \in DOMAIN History : History[n].success /\ History[n].output_var = PyStr(name)}

\* what the three lookups, in order, yield for a first segment; <<>> if none
\* of them yields a value
NamedSource(name) ==
    IF HasKey(Storage, PyStr(name)) THEN <<Lookup(Storage, PyStr(name))>>
    ELSE IF AliasRecords(name) # {}
    THEN <<History[CHOOSE n \in AliasRecords(name) :
                       \A m \in AliasRecords(name) : n <= m].outputs>>
    ELSE IF LegacyKey(name) # <<>> /\ HasKey(Storage, PyStr(LegacyKey(name)))
    THEN <<Lookup(Storage, PyStr(LegacyKey(name)))>>
    ELSE <<>>

VariableNotFound(ref, name) ==
    PyStr(<<"Error resolving template variable ">> \o ref \o <<": ", "Variable '">>
          \o name \o <<"' not found in output storage">>)

C13_NoErrorEscapes ==
    \A t \in Threads :
        /\ (\E n \in DOMAIN outcomes[t] : outcomes[t][n] # "succeeded") => Done(t)
        /\ Done(t) =>
              /\ {"success", "execution_history"} \subseteq DOMAIN result[t]
              /\ result[t].success \in BOOLEAN
              /\ ~result[t].success =>
                    /\ {"error", "failed_step", "partial_outputs"}
                           \subseteq DOMAIN result[t]
                    /\ IsStr(result[t].error)
                    /\ result[t].failed_step \in (0 - 1)..MaxSteps
                    /\ Len(ResultHistory(t))
                         = Cardinality({n \in DOMAIN outcomes[t] :
                                           outcomes[t][n] # "raised"})

\* a malformed entry after a successful step: the exception of
\* function_call.get is caught and a failure result is returned
C13_Witness ==
    /\ Done(1)
    /\ outcomes[1] = <<"succeeded", "raised">>
    /\ ~result[1].success
    /\ result[1].failed_step = 0 - 1
    /\ Len(ResultHistory(1)) = 1

Validated == precheck.validation # NoOutcome

DryRunDone == precheck.dry_run # NoOutcome

\* C14: validate_function_calls and dry_run never raise: for every step list
\* (steps with no inputs entry, with a missing or an unregistered function
\* name) validate_function_calls returns a (valid, message) pair and dry_run
\* returns a report with a valid flag and either a plan or an error message.
C14_ValidatorsNeverRaise ==
    /\ Validated =>
          /\ precheck.validation.ok
          /\ precheck.validation.val[1] = "tuple"
          /\ precheck.validation.val[2][1] \in {PyBool(TRUE), PyBool(FALSE)}
          /\ IsStr(precheck.validation.val[2][2])
    /\ DryRunDone =>
          /\ precheck.dry_run.ok
          /\ IsDict(precheck.dry_run.val)
          /\ HasKey(precheck.dry_run.val[2], PyStr(<<"valid">>))
          /\ \/ HasKey(precheck.dry_run.val[2], PyStr(<<"execution_plan">>))
             \/ HasKey(precheck.dry_run.val[2], PyStr(<<"error">>))

\* step n of the list handed to the validator violates the rule: no
\* non-empty operation name, a name the registry does not hold, or an input
\* name of the operation's schema that is no key of the step's inputs
Violating(n) ==
    LET call == precheck.function_calls[n][2]
        name == GetOr(call, PyStr(<<"function">>), PyNone)
        given == GetOr(call, PyStr(<<"inputs">>), PyDict(<<>>))
    IN  \/ name = PyNone
        \/ name = PyStr(<<>>)
        \/ ~HasKey(Functions, name)
        \/ \E k \in Keys(Lookup(Functions, name).inputs) : ~HasKey(given[2], k)

LowestViolating ==
    CHOOSE n \in DOMAIN precheck.function_calls :
        Violating(n) /\ \A m \in 1..(n - 1) : ~Violating(m)

\* the text msg holds the text part
Mentions(msg, part) ==
    \E k \in 0..(Len(msg) - Len(part)) : SubSeq(msg, k + 1, k + Len(part)) = part

ValidationFlag == precheck.validation.val[2][1][2]

ValidationMessage == precheck.validation.val[2][2]

\* the part of C15 about validate_function_calls
ValidationAsClaimed ==
    Validated =>
        /\ precheck.validation.ok
        /\ ValidationFlag = (\A n \in DOMAIN precheck.function_calls : ~Violating(n))
        /\ ~ValidationFlag =>
              LET call == precheck.function_calls[LowestViolating][2]
                  name == GetOr(call, PyStr(<<"function">>), PyNone)
              IN  /\ SubSeq(ValidationMessage[2], 1,
                            2 + Len(IntToStr(LowestViolating - 1)))
                       = <<"Step ">> \o IntToStr(LowestViolating - 1) \o <<": ">>
                  /\ (Truthy(name) /\ ~HasKey(Functions, name)) =>
                         Mentions(ValidationMessage[2], name[2])

\* the part of C15 about dry_run
DryRunAgrees ==
    DryRunDone =>
        /\ precheck.dry_run.ok
        /\ Lookup(precheck.dry_run.val[2], PyStr(<<"valid">>)) = PyBool(ValidationFlag)
        /\ ~ValidationFlag =>
              Lookup(precheck.dry_run.val[2], PyStr(<<"error">>)) = ValidationMessage

\* C15: validate_function_calls returns valid exactly when every step has a
\* non-empty registered operation name and supplies every input name of the
\* operation's schema as a key of its inputs; otherwise it returns invalid
\* with a message naming the lowest violating step index and, for an
\* unregistered operation, its name; dry_run reports the same validity and
\* message.
C15_ValidationRule == ValidationAsClaimed /\ DryRunAgrees

\* entry n of the plan as the claim describes it
ClaimedPlanEntry(n) ==
    LET call == precheck.function_calls[n][2]
    IN  PyDict(<< <<PyStr(<<"step">>), PyInt(n - 1)>>,
                  <<PyStr(<<"function">>), Lookup(call, PyStr(<<"function">>))>>,
                  <<PyStr(<<"inputs">>), GetOr(call, PyStr(<<"inputs">>), PyNone)>>,
                  <<PyStr(<<"description">>),
                    PyStr(Lookup(Functions, Lookup(call, PyStr(<<"function">>))).description)>> >>)

\* for a valid list of length N the dry run returned a plan of N entries,
\* entry i describing step i
PlanAsClaimed ==
    (DryRunDone /\ \A n \in DOMAIN precheck.function_calls : ~Violating(n)) =>
        /\ precheck.dry_run.ok
        /\ HasKey(precheck.dry_run.val[2], PyStr(<<"execution_plan">>))
        /\ Lookup(precheck.dry_run.val[2], PyStr(<<"execution_plan">>))
             = PyList([n \in DOMAIN precheck.function_calls |-> ClaimedPlanEntry(n)])

\* C16: dry_run and validate_function_calls invoke no operation and leave the
\* engine's output store and execution history unchanged; for a valid step
\* list of length N dry_run returns a plan of exactly N entries, entry i
\* carrying step index i and step i's operation name, raw inputs and registry
\* description, in declaration order.
C16_DryRunFrameAndPlan ==
    [][precheck' # precheck =>
          /\ UNCHANGED <<stores, histories, output_storage, execution_history,
                         invoked, store_by, hist_by>>
          /\ PlanAsClaimed']_vars

\* the step the run has just executed, and its operation name
LastCall == function_calls[1][Len(function_calls[1])]

UnknownOperation(call) ==
    /\ IsDict(call)
    /\ ~HasKey(Functions, GetOr(call[2], PyStr(<<"function">>), PyNone))

\* C17: a step whose operation name is not in the registry fails at execution
\* time, after its inputs were resolved: no callable is invoked for it,
\* nothing is written to the store for it, and the run halts with failed_step
\* equal to the step's index.
C17_UnknownOperationRejected ==
    [][(/\ Len(function_calls'[1]) = Len(function_calls[1]) + 1
        /\ UnknownOperation(LastCall')) =>
           LET i == Len(function_calls[1])
               name == Lookup(LastCall'[2], PyStr(<<"function">>))
               resolved == ResolveInputs(Lookup(LastCall'[2], PyStr(<<"inputs">>)),
                                         Storage, History)
           IN  /\ stores' = stores
               /\ invoked' = invoked
               /\ outcomes'[1] = Append(outcomes[1], "failed")
               /\ History' = Append(History,
                     [step |-> i, function |-> name,
                      inputs |-> Lookup(LastCall'[2], PyStr(<<"inputs">>)),
                      error |-> IF resolved.ok
                                THEN PyStr(<<"Function '">> \o name[2] \o <<"' not found">>)
                                ELSE resolved.val,
                      success |-> FALSE])
               /\ pc'[1] = "done"
               /\ ~result'[1].success
               /\ result'[1].failed_step = i]_vars

\* step 1 names the unregistered operation foo with an input that resolves
\* against step 0's output and an alias: the run has halted at step 1, only
\* step 0's callable was invoked and the store holds only step 0's output
C17_Witness ==
    /\ Done(1)
    /\ outcomes[1] = <<"succeeded", "failed">>
    /\ function_calls[1][2] = Call(PyStr(<<"foo">>),
                                   PyStr(<<"$", "output_", "0", ".", "result">>),
                                   PyStr(<<"x">>))
    /\ History[2].error = PyStr(<<"Function '", "foo", "' not found">>)
    /\ invoked[1] = <<0>>
    /\ Keys(Storage) = {OutputKey(0)}
    /\ result[1].failed_step = 1

\* the run has just executed a step, and the step succeeded
StepSucceeded ==
    /\ Len(function_calls'[1]) = Len(function_calls[1]) + 1
    /\ outcomes'[1][Len(outcomes'[1])] = "succeeded"

\* after a successful step i the store binds output_i and the declared alias
\* to the step's result
BoundToResult ==
    [][StepSucceeded =>
          LET i == Len(function_calls[1])
              alias == GetOr(LastCall'[2], PyStr(<<"output_var">>), PyNone)
              outputs == History'[Len(History')].outputs
          IN  /\ HasKey(Storage', OutputKey(i))
              /\ Lookup(Storage', OutputKey(i)) = outputs
              /\ alias # PyNone =>
                    /\ HasKey(Storage', alias)
                    /\ Lookup(Storage', alias) = outputs]_vars

\* C18: after step i succeeds the store contains output_i bound to the step's
\* result and, if the step declared an alias, the alias bound to the same
\* value; a step without an alias adds exactly one key.
C18_StoreGainsOutput ==
    /\ BoundToResult
    /\ [][(/\ StepSucceeded
           /\ ~HasKey(LastCall'[2], PyStr(<<"output_var">>))) =>
              /\ Keys(Storage') \ Keys(Storage) = {OutputKey(Len(function_calls[1]))}
              /\ Keys(Storage) \subseteq Keys(Storage')]_vars

\* the step that reads output_0 of the current store
ReadsOutputZero ==
    Call(PyStr(<<"absolute_value">>), PyStr(<<"$", "output_", "0", ".", "result">>), PyNone)

\* the step that reads the alias x of the current store
ReadsAliasX ==
    Call(PyStr(<<"absolute_value">>), PyStr(<<"{{", "x", ".", "result", "}}">>), PyNone)

\* C19: in sequential runs on one engine the later run starts with an empty
\* store and an empty history, none of its references resolves to an output
\* of the earlier run, and its result holds no record or output of the
\* earlier run.
C19_NoCrossRunState ==
    /\ (pc[2] = "running" /\ function_calls[2] = <<>>) =>
          Storage = <<>> /\ History = <<>>
    /\ ~foreign_read[2]
    /\ (outcomes[2] # <<>> /\ function_calls[2][1] \in {ReadsOutputZero, ReadsAliasX}) =>
          outcomes[2][1] = "failed"
    /\ Done(2) =>
          /\ result[2].execution_history # result[1].execution_history
          /\ \A n \in DOMAIN hist_by[result[2].execution_history] :
                hist_by[result[2].execution_history][n] = 2
          /\ Len(ResultHistory(2)) = Len(hist_by[result[2].execution_history])
          /\ Len(ResultHistory(2)) <= Len(function_calls[2])
          /\ \A item \in Range(store_by[IF result[2].success THEN result[2].all_outputs ELSE result[2].partial_outputs]) :
                item[2] = 2

\* the first run stored output_0 and x, and the second run, which began by
\* reading output_0, has returned
C19_Witness ==
    /\ Done(1) /\ result[1].success /\ Len(ResultStore(1)) = 2
    /\ Done(2) /\ function_calls[2][1] = ReadsOutputZero

\* the operations of the registry whose result depends on more than their inputs
ImpureFunctions == {PyStr(<<"generate_uuid">>)}

AllPure(calls) ==
    \A n \in DOMAIN calls :
        IsDict(calls[n]) =>
            GetOr(calls[n][2], PyStr(<<"function">>), PyNone) \notin ImpureFunctions

\* the two returned results agree field by field, the history and the store
\* compared by content
SameResults ==
    /\ result[1].success = result[2].success
    /\ result[1].success => result[1].final_output = result[2].final_output
    /\ ~result[1].success =>
          /\ result[1].error = result[2].error
          /\ result[1].failed_step = result[2].failed_step
    /\ ResultHistory(1) = ResultHistory(2)
    /\ ResultStore(1) = ResultStore(2)

\* C20: two runs of the identical list of pure steps, the first on a fresh
\* engine and the second in sequence on the same engine, return results with
\* the same success flag, final output, history records and store contents.
C20_RunsAreDeterministic ==
    (Done(1) /\ Done(2) /\ function_calls[1] = function_calls[2]
        /\ AllPure(function_calls[1])) => SameResults

\* both runs executed the same two steps, the second step reading the first
\* one's alias, and both succeeded
C20_Witness ==
    /\ Done(1) /\ Done(2)
    /\ function_calls[1] = function_calls[2]
    /\ Len(function_calls[1]) = 2
    /\ function_calls[1][2] = ReadsAliasX
    /\ result[1].success /\ result[2].success

\* a step was taken and appended a record to the history
StepRecorded ==
    /\ Len(function_calls'[1]) = Len(function_calls[1]) + 1
    /\ Len(History') = Len(History) + 1

\* the references of RawValues: text, store key, field path
RunRefs ==
    {<<PosRef(0, <<>>), <<"output_", "0">>, <<>>>>,
     <<PosRef(0, << <<"result">> >>), <<"output_", "0">>, << <<"result">> >>>>,
     <<PosRef(1, << <<"result">> >>), <<"output_", "1">>, << <<"result">> >>>>,
     <<NameRef(<<"x">>, << <<"result">> >>), <<"x">>, << <<"result">> >>>>}

\* the value a raw input value denotes in the store
Denotes(value, storage) ==
    IF CodeLiteral(value) THEN value
    ELSE LET ref == CHOOSE r \in RunRefs : r[1] = value[2]
         IN  Walk(Lookup(storage, PyStr(ref[2])), ref[3])

\* C21: the record of a succeeded step holds the resolved inputs (each
\* reference replaced by the value it denotes) and the step's outputs; the
\* record of a failed step holds the raw inputs exactly as supplied and the
\* error message, whatever the failure was.
C21_RecordsCarryInputs ==
    [][StepRecorded =>
          LET raw_inputs == Lookup(LastCall'[2], PyStr(<<"inputs">>))
              record == History'[Len(History')]
          IN  IF record.success
              THEN /\ Len(record.inputs[2]) = Len(raw_inputs[2])
                   /\ \A n \in DOMAIN raw_inputs[2] :
                         record.inputs[2][n]
                           = <<raw_inputs[2][n][1], Denotes(raw_inputs[2][n][2], Storage)>>
                   /\ record.outputs = ExecuteFunction(record.function, record.inputs).val
              ELSE /\ record.inputs = raw_inputs
                   /\ IsStr(record.error)
                   /\ record.error = result'[1].error]_vars

\* step 1 read $output_0.result and its record holds the value 7; step 2
\* failed to resolve {{x.result}} and its record holds the reference text
C21_Witness ==
    /\ Len(History) = 3
    /\ History[2].success
    /\ function_calls[1][2] = Call(PyStr(<<"absolute_value">>), PyStr(<<"$", "output_", "0", ".", "result">>), PyNone)
    /\ History[2].inputs = Item(<<"number">>, PyInt(7))
    /\ ~History[3].success
    /\ History[3].inputs = Item(<<"number">>, PyStr(<<"{{", "x", ".", "result", "}}">>))

IsContainer(v) == v[1] \in {"list", "dict"}

\* C22: an input value that is a list or a map is handed on unchanged even
\* when it holds strings in reference syntax, the operation receives it as it
\* is, and a resolution failure is always due to a top-level string.
C22_ShallowResolution ==
    ProbeDone =>
        /\ probe_out.ok =>
              \A n \in DOMAIN ProbeItems :
                  IsContainer(ProbeItems[n][2]) =>
                      Lookup(probe_out.val[2], ProbeItems[n][1]) = ProbeItems[n][2]
        /\ ~probe_out.ok =>
              \E n \in DOMAIN ProbeItems :
                  IsStr(ProbeItems[n][2]) /\ ~CodeLiteral(ProbeItems[n][2])
        /\ (StepOneDone /\ Len(ProbeItems) = 1 /\ IsContainer(ProbeItems[1][2])
              /\ ProbeItems[1][1] = PyStr(<<"number">>)) =>
              History[2].error
                = PyStr(<<"bad operand type for abs(): '", ProbeItems[1][2][1], "'">>)

\* the list ["$output_0"] went through resolution unchanged while the store
\* holds output_0, and the operation was called with it
C22_Witness ==
    /\ StepOneDone
    /\ HasKey(Storage, OutputKey(0))
    /\ raw_probe = Item(<<"number">>, PyList(<<PyStr(<<"$", "output_", "0">>)>>))
    /\ probe_out = Return(raw_probe)
    /\ invoked[1] = <<0, 1>>

\* the number of steps of the run that appended a record
Recorded(t) == Cardinality({n \in DOMAIN outcomes[t] : outcomes[t][n] # "raised"})

\* C23: in a failed run failed_step is the index of the step whose record is
\* the failed one, the last of the history; it is -1 only when the error was
\* raised outside per-step handling, and then no record is a failed one, the
\* result carries the history accumulated so far and an error string.
C23_FailedStepReported ==
    (Done(1) /\ ~result[1].success) =>
        /\ IsStr(result[1].error)
        /\ Len(ResultHistory(1)) = Recorded(1)
        /\ IF outcomes[1] # <<>> /\ outcomes[1][Len(outcomes[1])] = "failed"
           THEN /\ result[1].failed_step = Len(function_calls[1]) - 1
                /\ ~ResultHistory(1)[Len(ResultHistory(1))].success
                /\ ResultHistory(1)[Len(ResultHistory(1))].step = result[1].failed_step
                /\ ResultHistory(1)[Len(ResultHistory(1))].error = result[1].error
                /\ \A n \in 1..(Len(ResultHistory(1)) - 1) : ResultHistory(1)[n].success
           ELSE /\ result[1].failed_step = 0 - 1
                /\ \A n \in DOMAIN ResultHistory(1) : ResultHistory(1)[n].success
                /\ StartsWith(result[1].error[2], "Pipeline execution failed: ")

\* step 1 failed after step 0 succeeded and the result names step 1
C23_Witness ==
    /\ Done(1) /\ ~result[1].success
    /\ result[1].failed_step = 1
    /\ Len(ResultHistory(1)) = 2
    /\ ResultHistory(1)[1].success /\ ~ResultHistory(1)[2].success

\* a step that is no map raised outside per-step handling after step 0
\* succeeded: failed_step is -1 and the history holds the record of step 0
C23_Unattributed ==
    /\ Done(1) /\ ~result[1].success
    /\ result[1].failed_step = 0 - 1
    /\ LastCall = Malformed
    /\ Len(ResultHistory(1)) = 1

\* the planner's list passed validation
PlanValid ==
    /\ ValidateFunctionCalls(query.function_calls).ok
    /\ ValidateFunctionCalls(query.function_calls).val[2][1] = PyBool(TRUE)

\* the executor has been entered
ExecutorReached == pc[1] # "idle"

\* C24: process_user_query reaches the executor only with a non-empty plan
\* that passed validation; with an empty plan or a plan that did not pass, it
\* returns a failure and no operation is invoked; plan_user_query never
\* invokes an operation.
C24_ExecutorAfterValidation ==
    /\ ExecutorReached =>
          /\ query.entry = "process"
          /\ query.function_calls # <<>>
          /\ PlanValid
    /\ (query.entry = "process" /\ query.stage = "returned"
          /\ (query.function_calls = <<>> \/ ~PlanValid)) =>
          /\ query.response.success = FALSE
          /\ IsStr(query.response.error)
          /\ ~ExecutorReached
          /\ invoked[1] = <<>>
    /\ query.entry = "plan" =>
          /\ ~ExecutorReached
          /\ invoked[1] = <<>>
          /\ stores = << <<>> >> /\ histories = << <<>> >>

\* the plan's first step is a well-formed absolute_value call and its second
\* names an unregistered operation: the request was refused and nothing ran
C24_Witness ==
    /\ query.entry = "process" /\ query.stage = "returned"
    /\ query.function_calls
         = <<PlannedCall(PyStr(<<"absolute_value">>), Item(<<"number">>, PyInt(-7))),
             PlannedCall(PyStr(<<"foo">>), Item(<<"number">>, PyInt(-7)))>>
    /\ query.response
         = QueryFailed(<<"Invalid execution plan: ", "Step ", "1", ": ", "Function '", "foo", "' not found">>)
    /\ invoked[1] = <<>>

\* record k has step k, and only the last record can be a failed one
HistoryShape ==
    /\ \A n \in DOMAIN History : History[n].step = n - 1
    /\ \A n \in 1..(Len(History) - 1) : History[n].success

\* C25: at every point of a run record k of the history has step k, at most
\* one record is a failed one, it is the last, and once it is there the
\* history gets no further record.
C25_HistoryShapeInvariant ==
    /\ [](pc[1] # "idle" => HistoryShape)
    /\ [][(pc[1] # "idle" /\ History # <<>> /\ ~History[Len(History)].success)
             => History' = History]_vars

\* two succeeded records followed by the failed record of step 2
C25_Witness ==
    /\ Done(1)
    /\ Len(History) = 3
    /\ History[1].success /\ History[2].success /\ ~History[3].success
    /\ History[3].step = 2

\* a step was taken and its record is a failed one
StepFailedNow ==
    /\ StepRecorded
    /\ ~History'[Len(History')].success

\* C26: whenever step i is recorded as failed, whatever made it fail and
\* whatever alias it declared, the store equals the store after step i-1:
\* it holds neither output_i nor any other key added by step i.
C26_FailedStepLeavesStore ==
    [][StepFailedNow =>
          /\ Storage' = Storage
          /\ ~HasKey(Storage', OutputKey(Len(function_calls[1])))]_vars

\* step 0 failed by resolution, by lookup or in the operation, and the store
\* is empty
C26_CleanFailure ==
    /\ Done(1)
    /\ outcomes[1] = <<"failed">>
    /\ Storage = <<>>

\* C27: at every point of a run the store holds, for every succeeded record
\* k, the key output_k bound to that record's outputs, every key output_k of
\* the store belongs to a succeeded record k, and a successful run of N
\* steps returns a store that holds output_0 .. output_{N-1}.
C27_StoreMatchesHistory ==
    pc[1] # "idle" =>
        /\ \A n \in DOMAIN History :
              History[n].success =>
                  /\ HasKey(Storage, OutputKey(n - 1))
                  /\ Lookup(Storage, OutputKey(n - 1)) = History[n].outputs
        /\ \A key \in PositionalKeys(Storage) :
              \E n \in DOMAIN History :
                  History[n].success /\ key = OutputKey(n - 1)
        /\ (Done(1) /\ result[1].success) =>
              \A k \in 0..(Len(function_calls[1]) - 1) :
                  HasKey(ResultStore(1), OutputKey(k))

\* C28: once a run has returned, a later sequential call of execute_pipeline,
\* dry_run or validate_function_calls on the same engine changes neither the
\* returned result nor the contents of the history and the store it refers
\* to.
C28_ResultNotAltered ==
    [][Done(1) =>
          /\ result'[1] = result[1]
          /\ ResultHistory(1)' = ResultHistory(1)
          /\ ResultStore(1)' = ResultStore(1)]_vars

\* after the first run returned a store with output_0 and x, the engine ran a
\* second pipeline that stored other outputs, validated and dry-ran a list
C28_Witness ==
    /\ Done(1) /\ Done(2)
    /\ Len(ResultStore(1)) = 2
    /\ ResultStore(2) # <<>>
    /\ ResultStore(2) # ResultStore(1)
    /\ precheck.validation # NoOutcome
    /\ precheck.dry_run # NoOutcome

\* the error text of execute_function for a name that is not registered
NotFoundError(record) ==
    /\ ~record.success
    /\ record.error[2][1] = "Function '"
    /\ record.error[2][Len(record.error[2])] = "' not found"

\* the schema input names of the operation a record names
SchemaNames(record) == Keys(Lookup(Functions, record.function).inputs)

\* C29: when validate_function_calls returned valid for the list that is
\* executed, no step fails because its operation is not in the registry and
\* no operation is invoked with one of its schema input names missing.
C29_ValidatedListExecutes ==
    (PlanValid /\ ExecutorReached) =>
        /\ \A n \in DOMAIN function_calls[1] : ~UnknownOperation(function_calls[1][n])
        /\ \A n \in DOMAIN History : ~NotFoundError(History[n])
        /\ \A n \in DOMAIN invoked[1] :
              LET record == History[invoked[1][n] + 1]
              IN  /\ IsDict(record.inputs)
                  /\ SchemaNames(record) \subseteq Keys(record.inputs[2])

\* a validated plan whose first step succeeded and whose second step, a
\* reference to its own output, failed on resolution
C29_Witness ==
    /\ query.entry = "process"
    /\ query.stage = "returned"
    /\ Len(query.function_calls) = 2
    /\ PlanValid
    /\ invoked[1] = <<0>>
    /\ query.function_calls[2]
         = PlannedCall(PyStr(<<"absolute_value">>),
                       Item(<<"number">>, PyStr(<<"$", "output_", "1", ".", "result">>)))
    /\ query.response.success = FALSE
    /\ query.response.execution_result.failed_step = 1

\* the succeeded records that declared alias x
Declarers(x) ==
    {n \in DOMAIN History : History[n].success /\ History[n].output_var = x}

\* the aliases declared by several succeeded records
SharedAliases ==
    {x \in {History[n].output_var : n \in DOMAIN History} :
        IsStr(x) /\ x[2] # <<>> /\ Cardinality(Declarers(x)) >= 2}

Latest(S) == CHOOSE n \in S : \A m \in S : m <= n

\* {{x}} resolved in the next step gives the outputs of the most recent
\* succeeded record that declared x, and every output_k is bound to the
\* outputs of record k
LatestDeclarerWins(x) ==
    /\ ResolveTemplateVariable(NameRef(x[2], <<>>), Storage, History)
         = Return(History[Latest(Declarers(x))].outputs)
    /\ \A n \in DOMAIN History :
          History[n].success =>
              Lookup(Storage, OutputKey(n - 1)) = History[n].outputs

\* C30: when several succeeded steps of a run declare the same alias x, a
\* named reference {{x}} in a later step resolves to the result of the most
\* recent of them, and each positional key output_k still denotes the result
\* of step k.
C30_SharedAliasLatestWins ==
    pc[1] = "running" => \A x \in SharedAliases : LatestDeclarerWins(x)

\* C30 for runs in which no alias is spelled like a positional key
SharedPlainAliasLatestWins ==
    (/\ pc[1] = "running"
     /\ \A n \in DOMAIN History :
            ~(IsStr(History[n].output_var) /\ StartsWith(History[n].output_var[2], "output_")))
        => \A x \in SharedAliases : LatestDeclarerWins(x)

\* steps 0 and 1 both declared x with different results
SharedPlainAlias ==
    /\ pc[1] = "running"
    /\ PyStr(<<"x">>) \in SharedAliases
    /\ History[1].outputs # History[2].outputs

====
